---------------------------- MODULE Spec2Model ----------------------------
(* A model of Agent B (rohanjoshi3958/softlight): the step dispatcher       *)
(* AgentB.execute_task, the element resolution cascade                       *)
(* Navigator.find_element_by_description, and the authentication gate        *)
(* Navigator.is_login_page / Navigator.wait_for_login.                       *)
(*                                                                           *)
(* Program strings are sequences of one-character strings, so that           *)
(* str.lower(), the `in` substring test and the regular expressions are      *)
(* computed as Python computes them.                                         *)
EXTENDS Integers, Sequences, FiniteSets, TLC

---------------------------------------------------------------------------
(* Strings                                                                   *)

Digits == {"0", "1", "2", "3", "4", "5", "6", "7", "8", "9"}

ToLower == [ A |-> "a", B |-> "b", C |-> "c", D |-> "d", E |-> "e", F |-> "f", G |-> "g",
             H |-> "h", I |-> "i", J |-> "j", K |-> "k", L |-> "l", M |-> "m", N |-> "n",
             O |-> "o", P |-> "p", Q |-> "q", R |-> "r", S |-> "s", T |-> "t", U |-> "u",
             V |-> "v", W |-> "w", X |-> "x", Y |-> "y", Z |-> "z" ]

ToUpper == [ a |-> "A", b |-> "B", c |-> "C", d |-> "D", e |-> "E", f |-> "F", g |-> "G",
             h |-> "H", i |-> "I", j |-> "J", k |-> "K", l |-> "L", m |-> "M", n |-> "N",
             o |-> "O", p |-> "P", q |-> "Q", r |-> "R", s |-> "S", t |-> "T", u |-> "U",
             v |-> "V", w |-> "W", x |-> "X", y |-> "Y", z |-> "Z" ]

\* str.lower() and str.upper() on one character
LowerChar(c) == IF c \in DOMAIN ToLower THEN ToLower[c] ELSE c

UpperChar(c) == IF c \in DOMAIN ToUpper THEN ToUpper[c] ELSE c

\* str.lower(), as a tuple
Lower(s) == SubSeq([ k \in 1..Len(s) |-> LowerChar(s[k]) ], 1, Len(s))

\* Python's `w in s` on strings
Contains(s, w) ==
    \E k \in 0..(Len(s) - Len(w)) : \A j \in 1..Len(w) : s[k + j] = w[j]

\* any(word in s for word in words)
ContainsAny(s, words) == \E w \in words : Contains(s, w)

\* the regular expression classes \w, \s and ["'] on one character
IsWordChar(c) == c \in DOMAIN ToLower \/ c \in DOMAIN ToUpper \/ c \in Digits \/ c = "_"

IsSpaceChar(c) == c \in {" ", "\t", "\n"}

IsQuoteChar(c) == c \in {"'", "\""}

---------------------------------------------------------------------------
(* AgentB._extract_value_from_step                                           *)

NoValue == [found |-> FALSE, value |-> <<>>]

\* re.search(r'["\']([^"\']+)["\']', step): the leftmost opening quote that is
\* followed by at least one non-quote character and then a closing quote
QuotedStarts(step) ==
    { a \in 1..Len(step) :
        /\ IsQuoteChar(step[a])
        /\ \E b \in (a + 2)..Len(step) :
              /\ IsQuoteChar(step[b])
              /\ \A k \in (a + 1)..(b - 1) : ~IsQuoteChar(step[k]) }

QuotedValue(step) ==
    LET a == CHOOSE x \in QuotedStarts(step) : \A y \in QuotedStarts(step) : x <= y
        b == CHOOSE x \in (a + 2)..Len(step) :
                 /\ IsQuoteChar(step[x])
                 /\ \A k \in (a + 1)..(x - 1) : ~IsQuoteChar(step[k])
    IN  SubSeq(step, a + 1, b - 1)

ValueWord == <<"v", "a", "l", "u", "e">>

\* the end of the run of characters satisfying the class, starting at k
RECURSIVE RunEnd(_, _, _)
RunEnd(s, k, sep) ==
    IF k <= Len(s) /\ (IF sep THEN s[k] = ":" \/ IsSpaceChar(s[k]) ELSE IsWordChar(s[k]))
    THEN RunEnd(s, k + 1, sep)
    ELSE k

\* re.search(r'value[:\s]+(\w+)', step, re.IGNORECASE): positions p where
\* "value" starts, a run of at least one ':' or whitespace follows, and a word
\* character follows the run
ValueStarts(step) ==
    { p \in 1..Len(step) :
        /\ p + 4 <= Len(step)
        /\ Lower(SubSeq(step, p, p + 4)) = ValueWord
        /\ RunEnd(step, p + 5, TRUE) > p + 5
        /\ RunEnd(step, RunEnd(step, p + 5, TRUE), FALSE) > RunEnd(step, p + 5, TRUE) }

ValueToken(step) ==
    LET p == CHOOSE x \in ValueStarts(step) : \A y \in ValueStarts(step) : x <= y
        w == RunEnd(step, p + 5, TRUE)
    IN  SubSeq(step, w, RunEnd(step, w, FALSE) - 1)

_extract_value_from_step(step) ==
    IF QuotedStarts(step) # {} THEN [found |-> TRUE, value |-> QuotedValue(step)]
    ELSE IF ValueStarts(step) # {} THEN [found |-> TRUE, value |-> ValueToken(step)]
    ELSE NoValue

---------------------------------------------------------------------------
(* TaskParser                                                                *)

\* str.capitalize()
Capitalize(s) ==
    IF s = <<>> THEN s ELSE <<UpperChar(s[1])>> \o Lower(Tail(s))

W_linear == <<"l", "i", "n", "e", "a", "r">>
W_notion == <<"n", "o", "t", "i", "o", "n">>
W_asana == <<"a", "s", "a", "n", "a">>
W_trello == <<"t", "r", "e", "l", "l", "o">>
W_jira == <<"j", "i", "r", "a">>
W_Unknown == <<"U", "n", "k", "n", "o", "w", "n">>
W_create == <<"c", "r", "e", "a", "t", "e">>
W_project == <<"p", "r", "o", "j", "e", "c", "t">>
W_filter == <<"f", "i", "l", "t", "e", "r">>
W_change == <<"c", "h", "a", "n", "g", "e">>
W_update == <<"u", "p", "d", "a", "t", "e">>
A_perform_task == <<"p", "e", "r", "f", "o", "r", "m", " ", "t", "a", "s", "k">>
A_create_project == <<"c", "r", "e", "a", "t", "e", " ", "p", "r", "o", "j", "e", "c", "t">>
A_update_settings == <<"u", "p", "d", "a", "t", "e", " ", "s", "e", "t", "t", "i", "n", "g", "s">>
U_linear == <<"h", "t", "t", "p", "s", ":", "/", "/", "l", "i", "n", "e", "a", "r", ".", "a", "p", "p">>
U_notion == <<"h", "t", "t", "p", "s", ":", "/", "/", "w", "w", "w", ".", "n", "o", "t", "i", "o", "n", ".", "s", "o">>
U_asana == <<"h", "t", "t", "p", "s", ":", "/", "/", "a", "p", "p", ".", "a", "s", "a", "n", "a", ".", "c", "o", "m">>
U_example == <<"h", "t", "t", "p", "s", ":", "/", "/", "e", "x", "a", "m", "p", "l", "e", ".", "c", "o", "m">>
T_navigate == <<"N", "a", "v", "i", "g", "a", "t", "e", " ", "t", "o", " ", "t", "h", "e", " ", "a", "p", "p", "l", "i", "c", "a", "t", "i", "o", "n">>
T_find_and_click == <<"F", "i", "n", "d", " ", "a", "n", "d", " ", "c", "l", "i", "c", "k", " ", "t", "h", "e", " ", "b", "u", "t", "t", "o", "n", " ", "o", "r", " ", "m", "e", "n", "u", " ", "i", "t", "e", "m", " ", "t", "o", " ">>
T_fill_forms == <<"F", "i", "l", "l", " ", "i", "n", " ", "a", "n", "y", " ", "r", "e", "q", "u", "i", "r", "e", "d", " ", "f", "o", "r", "m", "s">>
T_complete == <<"C", "o", "m", "p", "l", "e", "t", "e", " ", "t", "h", "e", " ", "a", "c", "t", "i", "o", "n">>

WorkflowFields == {"app_name", "action", "steps", "base_url"}

\* a variant of the list that looks for notion first
apps_notion_first == <<W_notion, W_linear, W_asana, W_trello, W_jira>>

apps == <<W_linear, W_notion, W_asana, W_trello, W_jira>>

\* the for loop over apps with its break: the first app that occurs
FallbackAppName(question_lower) ==
    LET hits == { k \in 1..Len(apps) : Contains(question_lower, apps[k]) }
    IN  IF hits = {} THEN W_Unknown
        ELSE Capitalize(apps[CHOOSE k \in hits : \A m \in hits : k <= m])

FallbackAction(question_lower) ==
    IF Contains(question_lower, W_create) /\ Contains(question_lower, W_project)
    THEN A_create_project
    ELSE IF Contains(question_lower, W_filter) THEN W_filter
    ELSE IF Contains(question_lower, W_change) \/ Contains(question_lower, W_update)
    THEN A_update_settings
    ELSE A_perform_task

\* base_urls.get(app_name, "https://example.com")
FallbackBaseUrl(app_name) ==
    IF app_name = Capitalize(W_linear) THEN U_linear
    ELSE IF app_name = Capitalize(W_notion) THEN U_notion
    ELSE IF app_name = Capitalize(W_asana) THEN U_asana
    ELSE U_example

_fallback_parse(question) ==
    LET question_lower == Lower(question)
        app_name == FallbackAppName(question_lower)
        action == FallbackAction(question_lower)
    IN  [ has |-> WorkflowFields,
          app_name |-> app_name,
          action |-> action,
          steps |-> << T_navigate, T_find_and_click \o action, T_fill_forms, T_complete >>,
          base_url |-> FallbackBaseUrl(app_name) ]

\* a variant without the except clause: whatever the primary path left behind
\* is returned
parse_task_unguarded(question, llm) == llm.value

\* parse_task: the language-model call raises, or its text does not decode, or
\* it decodes to a JSON value, which is returned as it is.  A decoded value is
\* a record with the set `has` of the keys it holds.
parse_task(question, llm) ==
    IF llm.kind = "json" THEN llm.value ELSE _fallback_parse(question)

---------------------------------------------------------------------------
(* AgentB.execute_task: state                                                *)

VARIABLES
    pc,               \* where execute_task is: "start", "parse", "navigate",
                      \* "login_check", "loop", "returned", "raised"
    question,         \* the question execute_task was called with
    base_url,         \* the caller's override (<<>> when none is given)
    workflow,         \* the parsed workflow (results["workflow"] is this object)
    results,          \* results["screenshots"], ["success"], ["errors"]
    screenshot_count, \* ScreenshotManager.screenshot_count
    i,                \* the loop variable of `for i, step in enumerate(steps, start=2)`
    dispatched,       \* trace: the steps the loop has entered, with what became of them
    pageLog           \* trace: what the task did to the page, in order

\* Navigator.find_element_by_description
VARIABLES
    fpc,              \* "run" while the cascade runs, then "returned"
    description,      \* the description being resolved
    page,             \* the page: the visible elements and what the language model does
    strategy_index,   \* the position of the for loop in `strategies`
    calls,            \* trace: the strategies invoked, in order
    queries,          \* trace: the page-driver and language-model calls made, in order
    found             \* the return value (NoMatch for None)

\* Navigator.wait_for_login
VARIABLES
    wpc,              \* where wait_for_login is
    timeout,          \* its argument, in milliseconds
    start_url,        \* page.url when the wait began
    now,              \* the clock, in milliseconds since the wait began
    elapsed,          \* the local `elapsed` of the current iteration
    last_progress_message,
    indicator_index,  \* the position of the loop over authenticated_indicators
    lpage,            \* the page as the authentication gate sees it
    changes,          \* how often the page has changed during the wait
    allLogin,         \* trace: every is_login_page call of the wait returned True
    stableSinceTop,   \* trace: the page has not been a login page at any moment
                      \* since the last timeout test that let an iteration start
    leftLoginAt,      \* trace: the clock when the page last stopped being a
                      \* login page (-1 while it is one)
    returned          \* the return value once wpc = "returned"

\* one call of an operation that has no state of its own between calls
\* (is_login_page, parse_task, _fallback_parse, _extract_keywords,
\* click_element, fill_input)
VARIABLES
    cpc,              \* where the call is
    callee,           \* the operation called
    arg,              \* its arguments, with what the page and the language model do
    trace,            \* trace: the calls it has made on the page, in order
    result            \* what it returned

taskVars == << pc, question, base_url, workflow, results, screenshot_count, i,
               dispatched, pageLog >>

findVars == << fpc, description, page, strategy_index, calls, queries, found >>

loginVars == << wpc, timeout, start_url, now, elapsed, last_progress_message,
                indicator_index, lpage, changes, allLogin, stableSinceTop, leftLoginAt,
                returned >>

callVars == << cpc, callee, arg, trace, result >>

vars == << taskVars, findVars, loginVars, callVars >>

\* bounds of the model
MaxSteps == 3

MaxFailedCaptures == 1

\* step texts a workflow is drawn from
S_LogIn == <<"L", "o", "g", " ", "i", "n">>
S_LogInClick == <<"l", "o", "g", " ", "i", "n", " ", "a", "n", "d", " ", "c", "l", "i", "c", "k", " ", "c", "o", "n", "t", "i", "n", "u", "e">>
S_ClickCreate == <<"C", "l", "i", "c", "k", " ", "C", "r", "e", "a", "t", "e">>
S_FillName == <<"F", "i", "l", "l", " ", "n", "a", "m", "e", " ", "w", "i", "t", "h", " ", "'", "Q", "1", "'">>
S_TypeTitle == <<"T", "y", "p", "e", " ", "t", "h", "e", " ", "t", "i", "t", "l", "e">>
S_Wait == <<"W", "a", "i", "t", " ", "f", "o", "r", " ", "p", "a", "g", "e">>
S_Submit == <<"S", "u", "b", "m", "i", "t">>

Q_Linear == <<"H", "o", "w", " ", "d", "o", " ", "I", " ", "c", "r", "e", "a", "t", "e", " ", "a", " ", "p", "r", "o", "j", "e", "c", "t", " ", "i", "n", " ", "L", "i", "n", "e", "a", "r", "?">>
Q_Jira == <<"u", "p", "d", "a", "t", "e", " ", "m", "y", " ", "J", "i", "r", "a", " ", "b", "o", "a", "r", "d">>
U_staging == <<"h", "t", "t", "p", "s", ":", "/", "/", "s", "t", "a", "g", "i", "n", "g", ".", "t", "e", "s", "t">>

\* the calls of execute_task(question, base_url) of the model
Tasks == { << Q_Linear, <<>> >>, << Q_Jira, U_staging >> }

\* the step lists of the model: every run of at most MaxSteps consecutive
\* texts of the cycle below, so that every intent occurs at every position
StepCycle == << S_ClickCreate, S_LogInClick, S_FillName, S_Submit, S_Wait,
                S_TypeTitle, S_LogIn >>

StepSeqs ==
    { [ k \in 1..n |-> StepCycle[((a + k - 2) % Len(StepCycle)) + 1] ] :
        a \in 1..Len(StepCycle), n \in 1..MaxSteps }
    \cup { << S_FillName, S_ClickCreate, S_Submit >> }

NoWorkflow == [ has |-> {}, app_name |-> <<>>, action |-> <<>>, steps |-> <<>>,
                base_url |-> <<>> ]

\* JSON values the language model can answer with: well-formed workflows, and
\* objects that lack one of the keys
LLMWorkflows ==
    { [ has |-> WorkflowFields, app_name |-> Capitalize(W_notion),
        action |-> W_filter, steps |-> s, base_url |-> U_notion ] : s \in StepSeqs }
    \cup
    { [ has |-> WorkflowFields \ {f}, app_name |-> Capitalize(W_notion),
        action |-> W_filter, steps |-> << S_ClickCreate >>, base_url |-> U_notion ]
      : f \in WorkflowFields }

LLMOutcomes ==
    { [ kind |-> "raises", value |-> NoWorkflow ],
      [ kind |-> "undecodable", value |-> NoWorkflow ] }
    \cup { [ kind |-> "json", value |-> w ] : w \in LLMWorkflows }

NoResults == [ workflow |-> NoWorkflow, screenshots |-> <<>>, success |-> FALSE,
               errors |-> <<>> ]

---------------------------------------------------------------------------
(* AgentB.execute_task: helpers                                              *)

LoginWords == { <<"l", "o", "g", " ", "i", "n">>, <<"l", "o", "g", "i", "n">>,
                <<"s", "i", "g", "n", " ", "i", "n">>, <<"s", "i", "g", "n", "i", "n">>,
                <<"a", "u", "t", "h", "e", "n", "t", "i", "c", "a", "t", "e">> }

ClickWords == { <<"c", "l", "i", "c", "k">>, <<"p", "r", "e", "s", "s">>,
                <<"s", "e", "l", "e", "c", "t">>, <<"c", "h", "o", "o", "s", "e">>,
                <<"o", "p", "e", "n">> }

FillWords == { <<"f", "i", "l", "l">>, <<"e", "n", "t", "e", "r">>, <<"t", "y", "p", "e">>,
               <<"i", "n", "p", "u", "t">>, <<"w", "r", "i", "t", "e">> }

WaitWords == { <<"w", "a", "i", "t">>, <<"n", "a", "v", "i", "g", "a", "t", "e">>, <<"g", "o">> }

\* a variant of the chain that tests the click words before the login words
IntentClickFirst(step) ==
    LET step_lower == Lower(step)
    IN  IF ContainsAny(step_lower, ClickWords) THEN "click"
        ELSE IF ContainsAny(step_lower, LoginWords) THEN "login"
        ELSE IF ContainsAny(step_lower, FillWords) THEN "fill"
        ELSE IF ContainsAny(step_lower, WaitWords) THEN "wait"
        ELSE "generic"

\* the if / elif chain of the step loop
Intent(step) ==
    LET step_lower == Lower(step)
    IN  IF ContainsAny(step_lower, LoginWords) THEN "login"
        ELSE IF ContainsAny(step_lower, ClickWords) THEN "click"
        ELSE IF ContainsAny(step_lower, FillWords) THEN "fill"
        ELSE IF ContainsAny(step_lower, WaitWords) THEN "wait"
        ELSE "generic"

\* line 165: the words of has_login_step
LoginCheckWords == { <<"l", "o", "g", " ", "i", "n">>, <<"l", "o", "g", "i", "n">>,
                     <<"s", "i", "g", "n", " ", "i", "n">>, <<"s", "i", "g", "n", "i", "n">>,
                     <<"a", "u", "t", "h", "e", "n", "t", "i", "c", "a", "t", "e">> }

\* a variant that looks at the first step only
HasLoginStepFirst(steps) ==
    steps # <<>> /\ ContainsAny(Lower(steps[1]), LoginCheckWords)

\* has_login_step
HasLoginStep(steps) ==
    \E k \in 1..Len(steps) : ContainsAny(Lower(steps[k]), LoginCheckWords)

\* ScreenshotManager.capture_state: the count goes up whether or not the page's
\* screenshot call raises; a path is returned only if it does not
Shot(count, desc) == [ n |-> count + 1, desc |-> desc ]

\* `if screenshot_path: results["screenshots"].append(screenshot_path)`
WithShot(res, count, desc, ok) ==
    IF ok THEN [res EXCEPT !.screenshots = Append(@, Shot(count, desc))] ELSE res

\* the outcomes of one capture: the page's screenshot call may raise, in at
\* most MaxFailedCaptures captures of a run
CaptureOutcomes(res, count) ==
    IF count - Len(res.screenshots) < MaxFailedCaptures THEN BOOLEAN ELSE { TRUE }

\* a variant that keeps only the latest error
WithLatestError(res, err) == [res EXCEPT !.errors = << err >>]

\* a variant that appends the entry twice
WithErrorTwice(res, err) == [res EXCEPT !.errors = Append(Append(@, err), err)]

\* results["errors"].append(...)
WithError(res, err) == [res EXCEPT !.errors = Append(@, err)]

\* the task-level except clause
FatalHandler(res) ==
    [ WithError(res, [ kind |-> "fatal", i |-> 0, step |-> <<>> ]) EXCEPT !.success = FALSE ]

\* a variant that sets the flag without looking at the errors
SuccessRegardless(res) == [res EXCEPT !.success = TRUE]

\* results["success"] = len(results["errors"]) == 0
FinalSuccess(res) == [res EXCEPT !.success = (Len(res.errors) = 0)]

\* Locator.wait_for returns None when the element became visible and raises
\* TimeoutError when it did not; ElementHandle-returning waits
\* (Page.wait_for_selector with state="visible") return the handle or raise
LocatorWaitFor(visible) == IF visible THEN "None" ELSE "TimeoutError"

WaitForSelector(visible) == IF visible THEN "ElementHandle" ELSE "TimeoutError"

\* `if element:` after a wait inside try/except: a raise skips the test
Truthy(v) == v = "ElementHandle"

\* Navigator.click_element, by what happened inside it
ClickOutcomes == { "notfound", "click_raises", "wait_raises", "ok" }

\* a variant without the try / except around the interaction: only a target
\* that is not found gives False
click_element_unguarded(out) == out # "notfound"

click_element(out) == out = "ok"

ClickReachedPage(out) == out \in { "wait_raises", "ok" }

\* Navigator.fill_input, by what happened inside it
FillOutcomes == { "notfound", "fill_raises", "ok" }

fill_input(out) == out = "ok"

PageOp(op, target, value) == [ op |-> op, target |-> target, value |-> value ]

\* lines 226-229 of click_element on the page: the click that went through, or
\* the click (or the scroll before it) that raised
ClickLogged(log, out, step) ==
    IF ClickReachedPage(out) THEN Append(log, PageOp("click", step, <<>>))
    ELSE IF out = "click_raises" THEN Append(log, PageOp("click_raises", step, <<>>))
    ELSE log

Dispatch(idx, intent, outcome) == [ idx |-> idx, intent |-> intent, outcome |-> outcome ]

\* login_completed = await self.navigator.wait_for_login(timeout=300000): the
\* call, with the value it returned
LoginWait(login_completed) ==
    PageOp("wait_for_login", <<>>, << IF login_completed THEN "True" ELSE "False" >>)

ErrFailed(step) == [ kind |-> "failed", i |-> 0, step |-> step ]

ErrLogin(step) == [ kind |-> "login", i |-> 0, step |-> step ]

ErrStep(ii, step) == [ kind |-> "step_exception", i |-> ii, step |-> step ]

\* a variant in which an exception in a step ends the loop
AbandonAfterException(ii, steps) == Len(steps) + 2

\* the per-step except clause is inside the for loop: the loop goes on with
\* the next step
NextIndexAfterException(ii, steps) == ii + 1

InLoop == pc = "loop" /\ i - 1 <= Len(workflow.steps)

CurrentStep == workflow.steps[i - 1]

\* the variables of the operations a specification does not run
NoMatch == [ element |-> 0, selector |-> <<>>, method |-> "None" ]

NoPage == [ elements |-> {}, llm |-> "llm_raises" ]

FindIdle ==
    /\ fpc = "idle"
    /\ description = <<>>
    /\ page = NoPage
    /\ strategy_index = 0
    /\ calls = <<>>
    /\ queries = <<>>
    /\ found = NoMatch

NoLoginPage == [ url |-> <<>>, email |-> FALSE, password |-> FALSE, body |-> <<>>,
                 form |-> FALSE, fails |-> FALSE, indicators |-> {} ]

LoginIdle ==
    /\ wpc = "idle"
    /\ timeout = 0
    /\ start_url = <<>>
    /\ now = 0
    /\ elapsed = 0
    /\ last_progress_message = 0
    /\ indicator_index = 0
    /\ lpage = NoLoginPage
    /\ changes = 0
    /\ allLogin = TRUE
    /\ stableSinceTop = FALSE
    /\ leftLoginAt = -1
    /\ returned = FALSE

CallIdle ==
    /\ cpc = "idle"
    /\ callee = "none"
    /\ arg = <<>>
    /\ trace = <<>>
    /\ result = <<>>

TaskIdle ==
    /\ pc = "idle"
    /\ question = <<>>
    /\ base_url = <<>>
    /\ workflow = NoWorkflow
    /\ results = NoResults
    /\ screenshot_count = 0
    /\ i = 0
    /\ dispatched = <<>>
    /\ pageLog = <<>>

---------------------------------------------------------------------------
(* AgentB.execute_task: actions                                              *)

InitTask ==
    /\ pc = "start"
    /\ \E t \in Tasks : question = t[1] /\ base_url = t[2]
    /\ workflow = NoWorkflow
    /\ results = NoResults
    /\ screenshot_count = 0
    /\ i = 2
    /\ dispatched = <<>>
    /\ pageLog = <<>>
    /\ FindIdle
    /\ LoginIdle
    /\ CallIdle

\* line 121: _initialize_browser raises RuntimeError when no launch works
InitializeBrowser ==
    /\ pc = "start"
    /\ \E launched \in BOOLEAN : pc' = IF launched THEN "parse" ELSE "raised"
    /\ UNCHANGED << question, base_url, workflow, results, screenshot_count, i,
                    dispatched, pageLog >>
    /\ UNCHANGED << findVars, loginVars, callVars >>

\* a variant that assigns the parameter whether or not one was given
OverrideAlways(wf, url) == [wf EXCEPT !.base_url = url, !.has = @ \cup {"base_url"}]

\* lines 134-136: `if base_url: workflow['base_url'] = base_url`
OverrideBaseUrl(wf, url) ==
    IF url # <<>> THEN [wf EXCEPT !.base_url = url, !.has = @ \cup {"base_url"}] ELSE wf

\* lines 142-148: the result, which holds the workflow
NewResults(wf) == [ NoResults EXCEPT !.workflow = wf ]

\* lines 127-148: parse, read the fields, override base_url, start the result;
\* outs is what the language model may answer
ParseAndPrepareOn(outs) ==
    /\ pc = "parse"
    /\ \E llm \in outs :
          LET wf == parse_task(question, llm)
          IN  IF {"app_name", "action", "steps"} \subseteq wf.has
              THEN /\ workflow' = OverrideBaseUrl(wf, base_url)
                   /\ results' = NewResults(OverrideBaseUrl(wf, base_url))
                   /\ screenshot_count' = 0
                   /\ pc' = "navigate"
              ELSE /\ pc' = "raised"
                   /\ UNCHANGED << workflow, results, screenshot_count >>
    /\ UNCHANGED << question, base_url, i, dispatched, pageLog >>
    /\ UNCHANGED << findVars, loginVars, callVars >>

ParseAndPrepare == ParseAndPrepareOn(LLMOutcomes)

\* lines 150-160: page.goto and the first capture
Navigate ==
    /\ pc = "navigate"
    /\ \E gotoOk \in BOOLEAN, ok \in CaptureOutcomes(results, screenshot_count) :
          IF "base_url" \in workflow.has /\ gotoOk
          THEN /\ pageLog' = Append(pageLog, PageOp("goto", workflow.base_url, <<>>))
               /\ results' = WithShot(results, screenshot_count, "initial_page_load", ok)
               /\ screenshot_count' = screenshot_count + 1
               /\ pc' = "login_check"
          ELSE /\ results' = FatalHandler(results)
               /\ pc' = "returned"
               /\ UNCHANGED << pageLog, screenshot_count >>
    /\ UNCHANGED << question, base_url, workflow, i, dispatched >>
    /\ UNCHANGED << findVars, loginVars, callVars >>

\* lines 162-190: the automatic login check
LoginCheck ==
    /\ pc = "login_check"
    /\ \E onLogin \in BOOLEAN, login_completed \in BOOLEAN,
          ok \in CaptureOutcomes(results, screenshot_count) :
          IF ~HasLoginStep(workflow.steps) /\ onLogin
          THEN /\ pageLog' = Append(pageLog, LoginWait(login_completed))
               /\ IF login_completed
                  THEN /\ results' = WithShot(results, screenshot_count, "after_login", ok)
                       /\ screenshot_count' = screenshot_count + 1
                  ELSE UNCHANGED << results, screenshot_count >>
          ELSE UNCHANGED << pageLog, results, screenshot_count >>
    /\ pc' = "loop"
    /\ i' = 2
    /\ UNCHANGED << question, base_url, workflow, dispatched >>
    /\ UNCHANGED << findVars, loginVars, callVars >>

\* lines 220-221: login_button_texts
login_button_texts ==
    << <<"l", "o", "g", " ", "i", "n">>, <<"l", "o", "g", "i", "n">>,
       <<"s", "i", "g", "n", " ", "i", "n">>, <<"s", "i", "g", "n", "i", "n">>,
       <<"s", "i", "g", "n", " ", "i", "n">> >>

\* the visible link or button text of the page a login step starts on, when
\* that page is not a login page: none, or the usual label
T_LogInLink == <<"L", "o", "g", " ", "i", "n">>
TriggerLinks == { <<>>, T_LogInLink }

\* page.get_by_text(button_text, exact=False): a case-insensitive substring
\* match on the visible text
GetByText(link, button_text) == Contains(Lower(link), Lower(button_text))

\* lines 223-235: the loop over login_button_texts, from text k on, as the
\* sequence of what it does to the page: the wait on each text, with how it
\* came back, and the click behind `if element:`; a raise is swallowed by the
\* bare except and the loop goes on, a click ends it
RECURSIVE LoginTriggerFrom(_, _)
LoginTriggerFrom(k, link) ==
    IF k > Len(login_button_texts) THEN <<>>
    ELSE LET button_text == login_button_texts[k]
             element == LocatorWaitFor(GetByText(link, button_text))
         IN  IF element = "TimeoutError"
             THEN << PageOp("trigger_timeout", button_text, <<>>) >>
                      \o LoginTriggerFrom(k + 1, link)
             ELSE IF Truthy(element)
                  THEN << PageOp("trigger_found", button_text, <<>>),
                          PageOp("click_login_trigger", button_text, <<>>) >>
                  ELSE << PageOp("trigger_found", button_text, <<>>) >>
                           \o LoginTriggerFrom(k + 1, link)

LoginTrigger(link) == LoginTriggerFrom(1, link)

\* login_found after the loop
LoginFound(ops) == \E k \in 1..Len(ops) : ops[k].op = "click_login_trigger"

\* lines 201-282: a login step
StepLogin ==
    /\ InLoop
    /\ Intent(CurrentStep) = "login"
    /\ \E onLogin \in BOOLEAN, link \in TriggerLinks, onLoginAfter \in BOOLEAN,
          login_completed \in BOOLEAN :
        \E ok1 \in CaptureOutcomes(results, screenshot_count) :
          LET \* lines 207-216: not on a login page: capture before_login_step
              r1 == IF onLogin THEN results
                    ELSE WithShot(results, screenshot_count, "before_login_step", ok1)
              c1 == IF onLogin THEN screenshot_count ELSE screenshot_count + 1
              \* lines 218-235: the login-trigger loop
              ops == IF onLogin THEN <<>> ELSE LoginTrigger(link)
              login_found == LoginFound(ops)
              \* lines 237-240
              is_on_login_page == IF login_found THEN onLoginAfter ELSE onLogin
              log1 == pageLog \o ops
          IN  \E ok2 \in CaptureOutcomes(r1, c1) :
                LET \* lines 242-258: capture login_page_step
                    r2 == IF is_on_login_page
                          THEN WithShot(r1, c1, "login_page_step", ok2) ELSE r1
                    c2 == IF is_on_login_page THEN c1 + 1 ELSE c1
                IN  \E ok3 \in CaptureOutcomes(r2, c2) :
                      /\ pageLog' = Append(log1, LoginWait(login_completed))
                      /\ IF login_completed
                         THEN /\ results' = WithShot(r2, c2, "after_login_step", ok3)
                              /\ screenshot_count' = c2 + 1
                         ELSE /\ results' = WithError(r2, ErrLogin(CurrentStep))
                              /\ screenshot_count' = c2
                      /\ dispatched' = Append(dispatched, Dispatch(i - 1, "login",
                                           IF login_completed THEN "ok" ELSE "timeout"))
    /\ i' = i + 1
    /\ UNCHANGED << pc, question, base_url, workflow >>
    /\ UNCHANGED << findVars, loginVars, callVars >>

\* lines 284-300: a click step; outs is what can happen inside click_element
StepClickOn(outs) ==
    /\ InLoop
    /\ Intent(CurrentStep) = "click"
    /\ \E out \in outs, ok \in CaptureOutcomes(results, screenshot_count) :
          /\ pageLog' = ClickLogged(pageLog, out, CurrentStep)
          /\ IF click_element(out)
             THEN /\ results' = WithShot(results, screenshot_count, "after", ok)
                  /\ screenshot_count' = screenshot_count + 1
             ELSE /\ results' = WithError(results, ErrFailed(CurrentStep))
                  /\ UNCHANGED screenshot_count
          /\ dispatched' = Append(dispatched, Dispatch(i - 1, "click",
                               IF click_element(out) THEN "ok" ELSE "failed"))
    /\ i' = i + 1
    /\ UNCHANGED << pc, question, base_url, workflow >>
    /\ UNCHANGED << findVars, loginVars, callVars >>

StepClick == StepClickOn(ClickOutcomes)

\* a variant that calls fill_input whatever the extraction gave
AlwaysFill(value) == TRUE

\* line 310: `if value:` on what _extract_value_from_step returned, None or a
\* string of at least one character
ShouldFill(value) == value.found

\* lines 302-319: a fill step; outs is what can happen inside fill_input
StepFillOn(outs) ==
    /\ InLoop
    /\ Intent(CurrentStep) = "fill"
    /\ LET value == _extract_value_from_step(CurrentStep)
       IN  IF ShouldFill(value)
           THEN \E out \in outs, ok \in CaptureOutcomes(results, screenshot_count) :
                  /\ pageLog' = IF fill_input(out)
                                THEN Append(pageLog, PageOp("fill", CurrentStep, value.value))
                                ELSE pageLog
                  /\ IF fill_input(out)
                     THEN /\ results' = WithShot(results, screenshot_count, "filled", ok)
                          /\ screenshot_count' = screenshot_count + 1
                     ELSE UNCHANGED << results, screenshot_count >>
                  /\ dispatched' = Append(dispatched, Dispatch(i - 1, "fill",
                                       IF fill_input(out) THEN "ok" ELSE "failed"))
           ELSE /\ dispatched' = Append(dispatched, Dispatch(i - 1, "fill", "skipped"))
                /\ UNCHANGED << pageLog, results, screenshot_count >>
    /\ i' = i + 1
    /\ UNCHANGED << pc, question, base_url, workflow >>
    /\ UNCHANGED << findVars, loginVars, callVars >>

StepFill == StepFillOn(FillOutcomes)

\* lines 321-328: a wait / navigate step
StepWait ==
    /\ InLoop
    /\ Intent(CurrentStep) = "wait"
    /\ \E ok \in CaptureOutcomes(results, screenshot_count) :
          /\ results' = WithShot(results, screenshot_count, "state", ok)
          /\ screenshot_count' = screenshot_count + 1
    /\ dispatched' = Append(dispatched, Dispatch(i - 1, "wait", "ok"))
    /\ i' = i + 1
    /\ UNCHANGED << pc, question, base_url, workflow, pageLog >>
    /\ UNCHANGED << findVars, loginVars, callVars >>

\* lines 330-339: any other step
StepGeneric ==
    /\ InLoop
    /\ Intent(CurrentStep) = "generic"
    /\ \E out \in ClickOutcomes, ok \in CaptureOutcomes(results, screenshot_count) :
          /\ pageLog' = ClickLogged(pageLog, out, CurrentStep)
          /\ IF click_element(out)
             THEN /\ results' = WithShot(results, screenshot_count, "step", ok)
                  /\ screenshot_count' = screenshot_count + 1
             ELSE UNCHANGED << results, screenshot_count >>
          /\ dispatched' = Append(dispatched, Dispatch(i - 1, "generic",
                               IF click_element(out) THEN "ok" ELSE "failed"))
    /\ i' = i + 1
    /\ UNCHANGED << pc, question, base_url, workflow >>
    /\ UNCHANGED << findVars, loginVars, callVars >>

\* the branch of a fill step without a value calls nothing that can raise
\* (a search, a test and a print); every other branch awaits page operations
CanRaise(step) ==
    ~(Intent(step) = "fill" /\ ~_extract_value_from_step(step).found)

\* lines 341-344: the step body raises
StepRaises ==
    /\ InLoop
    /\ CanRaise(CurrentStep)
    /\ results' = WithError(results, ErrStep(i, CurrentStep))
    /\ dispatched' = Append(dispatched, Dispatch(i - 1, Intent(CurrentStep), "raised"))
    /\ i' = NextIndexAfterException(i, workflow.steps)
    /\ UNCHANGED << pc, question, base_url, workflow, screenshot_count, pageLog >>
    /\ UNCHANGED << findVars, loginVars, callVars >>

\* lines 346-369: the final capture, the success flag, the return
FinalCapture ==
    /\ pc = "loop"
    /\ i - 1 > Len(workflow.steps)
    /\ \E raises \in BOOLEAN, ok \in CaptureOutcomes(results, screenshot_count) :
          IF raises
          THEN /\ results' = FatalHandler(results)
               /\ UNCHANGED screenshot_count
          ELSE /\ results' = FinalSuccess(WithShot(results, screenshot_count, "final_state", ok))
               /\ screenshot_count' = screenshot_count + 1
    /\ pc' = "returned"
    /\ UNCHANGED << question, base_url, workflow, i, dispatched, pageLog >>
    /\ UNCHANGED << findVars, loginVars, callVars >>

NextTask ==
    \/ InitializeBrowser
    \/ ParseAndPrepare
    \/ Navigate
    \/ LoginCheck
    \/ StepLogin
    \/ StepClick
    \/ StepFill
    \/ StepWait
    \/ StepGeneric
    \/ StepRaises
    \/ FinalCapture

Spec == InitTask /\ [][NextTask]_vars

---------------------------------------------------------------------------
(* Navigator._extract_keywords                                               *)

stop_words == { <<"t", "h", "e">>, <<"a">>, <<"a", "n">>, <<"a", "n", "d">>, <<"o", "r">>,
                <<"b", "u", "t">>, <<"i", "n">>, <<"o", "n">>, <<"a", "t">>, <<"t", "o">>,
                <<"f", "o", "r">>, <<"o", "f">>, <<"w", "i", "t", "h">>, <<"b", "y">>,
                <<"h", "o", "w">>, <<"d", "o">>, <<"i">> }

\* str.split(): the maximal runs of non-whitespace characters, in order
RECURSIVE SplitFrom(_, _, _, _)
SplitFrom(s, k, cur, acc) ==
    IF k > Len(s) THEN (IF cur = <<>> THEN acc ELSE Append(acc, cur))
    ELSE IF IsSpaceChar(s[k])
         THEN SplitFrom(s, k + 1, <<>>, IF cur = <<>> THEN acc ELSE Append(acc, cur))
         ELSE SplitFrom(s, k + 1, Append(cur, s[k]), acc)

Split(s) == SplitFrom(s, 1, <<>>, <<>>)

\* a variant of the filter that asks for more than three characters
KeepWordLong(w) == w \notin stop_words /\ Len(w) > 3

KeepWord(w) == w \notin stop_words /\ Len(w) > 2

\* a variant that leaves the two-word phrases out
_extract_keywords_single(desc) == SelectSeq(Split(Lower(desc)), KeepWord)

_extract_keywords(desc) ==
    LET words == Split(Lower(desc))
        keywords == SelectSeq(words, KeepWord)
    IN  IF Len(keywords) > 1
        THEN keywords \o [ k \in 1..(Len(keywords) - 1) |->
                               keywords[k] \o <<" ">> \o keywords[k + 1] ]
        ELSE keywords

---------------------------------------------------------------------------
(* The page, as the resolution strategies see it                             *)

R_button == <<"b", "u", "t", "t", "o", "n">>
R_link == <<"l", "i", "n", "k">>
R_textbox == <<"t", "e", "x", "t", "b", "o", "x">>
R_searchbox == <<"s", "e", "a", "r", "c", "h", "b", "o", "x">>
R_combobox == <<"c", "o", "m", "b", "o", "b", "o", "x">>
R_menu == <<"m", "e", "n", "u">>
R_menubar == <<"m", "e", "n", "u", "b", "a", "r">>
R_dialog == <<"d", "i", "a", "l", "o", "g">>
R_form == <<"f", "o", "r", "m">>
R_input == <<"i", "n", "p", "u", "t">>
R_field == <<"f", "i", "e", "l", "d">>
R_modal == <<"m", "o", "d", "a", "l">>

Element(kind, role, s) == [ kind |-> kind, role |-> role, s |-> s ]

\* the visible elements a page is made of, in document order
ElementUniverse ==
    << Element("text", <<>>, <<"c", "r", "e", "a", "t", "e">>),
       Element("text", <<>>, <<"C", "r", "e", "a", "t", "e", " ", "P", "r", "o", "j", "e", "c", "t">>),
       Element("aria", <<>>, <<"C", "r", "e", "a", "t", "e", " ", "n", "e", "w">>),
       Element("role", R_button, <<"C", "r", "e", "a", "t", "e", " ", "P", "r", "o", "j", "e", "c", "t">>),
       Element("placeholder", <<>>, <<"P", "r", "o", "j", "e", "c", "t", " ", "n", "a", "m", "e">>),
       Element("role", R_textbox, <<"N", "a", "m", "e">>),
       Element("text", <<>>, <<"N", "e", "w", " ", "P", "r", "o", "j", "e", "c", "t">>),
       Element("text", <<>>, <<"C", "r", "e", "a", "t", "e">>) >>

\* what the semantic strategy meets: page.content() raises, the language-model
\* call raises, it answers with nothing, or with a selector that does not
\* (miss) or does (hit) resolve to a visible element
LLMBehaviours == { "content_raises", "llm_raises", "empty", "miss", "hit" }

LLMElement == Len(ElementUniverse) + 1

MaxElements == 2

Pages ==
    { [ elements |-> es, llm |-> b ] :
        es \in { x \in SUBSET (1..Len(ElementUniverse)) : Cardinality(x) <= MaxElements },
        b \in LLMBehaviours }

D_CreateButton == <<"C", "r", "e", "a", "t", "e", " ", "P", "r", "o", "j", "e", "c", "t", " ", "b", "u", "t", "t", "o", "n">>
D_NameField == <<"t", "h", "e", " ", "n", "a", "m", "e", " ", "f", "i", "e", "l", "d">>

Descriptions == { D_CreateButton, S_ClickCreate, D_NameField }

\* the elements of the page that satisfy a query, and the first of them
Matching(pg, kind, role, term, exact) ==
    { e \in pg.elements :
        /\ ElementUniverse[e].kind = kind
        /\ ElementUniverse[e].role = role
        /\ IF exact THEN ElementUniverse[e].s = term
           ELSE Contains(Lower(ElementUniverse[e].s), Lower(term)) }

First(es) == IF es = {} THEN 0 ELSE CHOOSE e \in es : \A x \in es : e <= x

---------------------------------------------------------------------------
(* Navigator: the five strategies                                            *)

\* one call of the page driver (or of the language model) made by a strategy:
\* what was asked, what came back, and the match the strategy builds from it
Attempt(q, term, role, ret, element, selector) ==
    [ q |-> q, term |-> term, role |-> role, ret |-> ret, element |-> element,
      selector |-> selector ]

\* lines 66-72: page.wait_for_selector(f"text='{keyword}'", state="visible")
TextExactAttempt(pg, keyword) ==
    LET es == Matching(pg, "text", <<>>, keyword, TRUE)
    IN  Attempt("text_exact", keyword, <<>>, WaitForSelector(es # {}), First(es),
                <<"t", "e", "x", "t", "=", "'">> \o keyword \o <<"'">>)

\* lines 74-82: page.get_by_text(keyword, exact=False).first.wait_for(...)
TextPartialAttempt(pg, keyword) ==
    LET es == Matching(pg, "text", <<>>, keyword, FALSE)
    IN  Attempt("text_partial", keyword, <<>>, LocatorWaitFor(es # {}), 0,
                <<"t", "e", "x", "t", "=">> \o keyword)

\* lines 91-97: page.wait_for_selector(f"[aria-label*='{keyword}' i]", ...)
AriaAttempt(pg, keyword) ==
    LET es == Matching(pg, "aria", <<>>, keyword, FALSE)
    IN  Attempt("aria", keyword, <<>>, WaitForSelector(es # {}), First(es),
                <<"[", "a", "r", "i", "a", "-", "l", "a", "b", "e", "l", "*", "=", "'">>
                    \o keyword \o <<"'", " ", "i", "]">>)

\* lines 120-128: page.get_by_role(role, name=keyword, exact=False).first.wait_for(...)
RoleAttempt(pg, keyword, role) ==
    LET es == Matching(pg, "role", role, keyword, FALSE)
    IN  Attempt("role", keyword, role, LocatorWaitFor(es # {}), 0,
                <<"r", "o", "l", "e", "=">> \o role)

\* lines 137-143: page.wait_for_selector("input[placeholder*=...], textarea[...]")
PlaceholderAttempt(pg, keyword) ==
    LET es == Matching(pg, "placeholder", <<>>, keyword, FALSE)
    IN  Attempt("placeholder", keyword, <<>>, WaitForSelector(es # {}), First(es),
                <<"i", "n", "p", "u", "t", "[", "p", "l", "a", "c", "e", "h", "o", "l", "d", "e", "r", "*", "=", "'">>
                    \o keyword
                    \o <<"'", " ", "i", "]", ",", " ", "t", "e", "x", "t", "a", "r", "e", "a", "[", "p", "l", "a", "c", "e", "h", "o", "l", "d", "e", "r", "*", "=", "'">>
                    \o keyword \o <<"'", " ", "i", "]">>)

\* lines 63-82: for each keyword the exact attempt, then the partial one
TextAttempts(pg, keywords) ==
    [ k \in 1..(2 * Len(keywords)) |->
        IF k % 2 = 1 THEN TextExactAttempt(pg, keywords[(k + 1) \div 2])
        ELSE TextPartialAttempt(pg, keywords[k \div 2]) ]

AriaAttempts(pg, keywords) == [ k \in 1..Len(keywords) |-> AriaAttempt(pg, keywords[k]) ]

PlaceholderAttempts(pg, keywords) ==
    [ k \in 1..Len(keywords) |-> PlaceholderAttempt(pg, keywords[k]) ]

\* lines 104-111, in the dict's order
role_map ==
    << [ word |-> R_button, roles |-> << R_button, R_link >> ],
       [ word |-> R_input, roles |-> << R_textbox, R_searchbox >> ],
       [ word |-> R_field, roles |-> << R_textbox, R_combobox >> ],
       [ word |-> R_menu, roles |-> << R_menu, R_menubar >> ],
       [ word |-> R_modal, roles |-> << R_dialog >> ],
       [ word |-> R_form, roles |-> << R_form >> ] >>

\* a variant that takes the roles of every role type, whatever the description
AllRolesFrom(description_lower, k) ==
    role_map[1].roles \o role_map[2].roles \o role_map[3].roles \o role_map[4].roles
        \o role_map[5].roles \o role_map[6].roles

\* lines 117-119: the roles of the role types that occur in the description
RECURSIVE RolesFrom(_, _)
RolesFrom(description_lower, k) ==
    IF k > Len(role_map) THEN <<>>
    ELSE (IF Contains(description_lower, role_map[k].word) THEN role_map[k].roles ELSE <<>>)
         \o RolesFrom(description_lower, k + 1)

\* lines 116-128: keyword by keyword, each role in turn
RoleAttempts(pg, desc, keywords) ==
    LET roles == RolesFrom(Lower(desc), 1)
    IN  [ k \in 1..(Len(keywords) * Len(roles)) |->
            RoleAttempt(pg, keywords[((k - 1) \div Len(roles)) + 1],
                        roles[((k - 1) % Len(roles)) + 1]) ]

\* lines 149-186: page.content(), the language-model call, and the wait on the
\* selector it suggests
SemanticAttempts(pg) ==
    LET content == Attempt("page.content", <<>>, <<>>,
                           IF pg.llm = "content_raises" THEN "Error" ELSE "str", 0, <<>>)
        llm == Attempt("chat.completions.create", <<>>, <<>>,
                       IF pg.llm = "llm_raises" THEN "Error" ELSE "str", 0, <<>>)
        wait == Attempt("llm_selector", <<>>, <<>>, WaitForSelector(pg.llm = "hit"),
                        LLMElement, <<"l", "l", "m">>)
    IN  IF pg.llm = "content_raises" THEN << content >>
        ELSE IF pg.llm \in { "llm_raises", "empty" } THEN << content, llm >>
        ELSE << content, llm, wait >>

\* a strategy returns at the first attempt whose `if element:` test passes
FirstHit(attempts) ==
    LET hits == { k \in 1..Len(attempts) : Truthy(attempts[k].ret) }
    IN  IF hits = {} THEN 0 ELSE CHOOSE k \in hits : \A x \in hits : k <= x

RunAttempts(attempts, method) ==
    LET hit == FirstHit(attempts)
    IN  IF hit = 0 THEN [ match |-> NoMatch, queries |-> attempts ]
        ELSE [ match |-> [ element |-> attempts[hit].element,
                           selector |-> attempts[hit].selector,
                           method |-> method ],
               queries |-> SubSeq(attempts, 1, hit) ]

_find_by_text_content(pg, desc) ==
    RunAttempts(TextAttempts(pg, _extract_keywords(desc)), "text_content")

_find_by_aria_label(pg, desc) ==
    RunAttempts(AriaAttempts(pg, _extract_keywords(desc)), "aria_label")

_find_by_role(pg, desc) ==
    RunAttempts(RoleAttempts(pg, desc, _extract_keywords(desc)), "role")

_find_by_placeholder(pg, desc) ==
    RunAttempts(PlaceholderAttempts(pg, _extract_keywords(desc)), "placeholder")

_find_by_semantic_meaning(pg, desc) == RunAttempts(SemanticAttempts(pg), "semantic")

\* a variant of the list that stops short of the semantic strategy
strategies_without_semantic == << "text content", "aria label", "role", "placeholder" >>

\* lines 36-42
strategies == << "text content", "aria label", "role", "placeholder", "semantic" >>

RunStrategy(name, pg, desc) ==
    CASE name = "text content" -> _find_by_text_content(pg, desc)
      [] name = "aria label" -> _find_by_aria_label(pg, desc)
      [] name = "role" -> _find_by_role(pg, desc)
      [] name = "placeholder" -> _find_by_placeholder(pg, desc)
      [] name = "semantic" -> _find_by_semantic_meaning(pg, desc)

\* a variant of the test that never passes
NeverMatch(element) == FALSE

\* line 48: `if element:` on what the strategy returned
IsMatch(element) == element.method # "None"

---------------------------------------------------------------------------
(* Navigator.find_element_by_description: actions                            *)

InitFind ==
    /\ fpc = "run"
    /\ description \in Descriptions
    /\ page \in Pages
    /\ strategy_index = 1
    /\ calls = <<>>
    /\ queries = <<>>
    /\ found = NoMatch
    /\ TaskIdle
    /\ LoginIdle
    /\ CallIdle

\* lines 44-53: one turn of the for loop
TryStrategy ==
    /\ fpc = "run"
    /\ strategy_index <= Len(strategies)
    /\ LET r == RunStrategy(strategies[strategy_index], page, description)
       IN  /\ calls' = Append(calls, strategies[strategy_index])
           /\ queries' = queries \o r.queries
           /\ IF IsMatch(r.match)
              THEN /\ found' = r.match
                   /\ fpc' = "returned"
                   /\ UNCHANGED strategy_index
              ELSE /\ strategy_index' = strategy_index + 1
                   /\ UNCHANGED << found, fpc >>
    /\ UNCHANGED << description, page, taskVars, loginVars, callVars >>

\* lines 55-56: the loop ran out
ReturnNone ==
    /\ fpc = "run"
    /\ strategy_index > Len(strategies)
    /\ found' = NoMatch
    /\ fpc' = "returned"
    /\ UNCHANGED << description, page, strategy_index, calls, queries, taskVars, loginVars, callVars >>

NextFind ==
    \/ TryStrategy
    \/ ReturnNone

SpecFind == InitFind /\ [][NextFind]_vars

---------------------------------------------------------------------------
(* Navigator.is_login_page                                                   *)

login_url_patterns ==
    { <<"/", "l", "o", "g", "i", "n">>, <<"/", "s", "i", "g", "n", "i", "n">>,
      <<"/", "a", "u", "t", "h">>, <<"/", "a", "u", "t", "h", "e", "n", "t", "i", "c", "a", "t", "e">>,
      <<"/", "s", "i", "g", "n", "-", "i", "n">>, <<"/", "l", "o", "g", "-", "i", "n">>,
      <<"/", "a", "c", "c", "o", "u", "n", "t", "/", "l", "o", "g", "i", "n">> }

login_text_indicators ==
    { <<"l", "o", "g", " ", "i", "n">>, <<"s", "i", "g", "n", " ", "i", "n">>,
      <<"l", "o", "g", "i", "n">>, <<"s", "i", "g", "n", "i", "n">>,
      <<"w", "e", "l", "c", "o", "m", "e", " ", "b", "a", "c", "k">> }

\* a variant in which login text counts without a form
is_login_page_text_alone(pg) ==
    IF ContainsAny(Lower(pg.url), login_url_patterns) THEN TRUE
    ELSE IF pg.fails THEN FALSE
    ELSE IF pg.email /\ pg.password THEN TRUE
    ELSE IF ContainsAny(Lower(pg.body), login_text_indicators) THEN TRUE
    ELSE FALSE

\* a variant in which a failing query is taken for one that found nothing to
\* stop at: the classification goes on as if the page could be read
is_login_page_unguarded(pg) ==
    IF ContainsAny(Lower(pg.url), login_url_patterns) THEN TRUE
    ELSE IF pg.email /\ pg.password THEN TRUE
    ELSE IF ContainsAny(Lower(pg.body), login_text_indicators) /\ pg.form THEN TRUE
    ELSE FALSE

\* A page is: its URL; whether an email/username-like input and a
\* password-like input are present; its body text; whether it holds a form;
\* whether its queries (query_selector, inner_text) raise; and which of the
\* authenticated-user indicator selectors match.
is_login_page(pg) ==
    IF ContainsAny(Lower(pg.url), login_url_patterns) THEN TRUE
    ELSE IF pg.fails THEN FALSE
    ELSE IF pg.email /\ pg.password THEN TRUE
    ELSE IF ContainsAny(Lower(pg.body), login_text_indicators) /\ pg.form THEN TRUE
    ELSE FALSE

---------------------------------------------------------------------------
(* Navigator.wait_for_login: state                                           *)

U_Login == <<"h", "t", "t", "p", "s", ":", "/", "/", "a", "p", "p", ".", "t", "e", "s", "t", "/", "L", "o", "g", "i", "n">>
U_Home == <<"h", "t", "t", "p", "s", ":", "/", "/", "a", "p", "p", ".", "t", "e", "s", "t", "/", "h", "o", "m", "e">>
U_Dashboard == <<"h", "t", "t", "p", "s", ":", "/", "/", "a", "p", "p", ".", "t", "e", "s", "t", "/", "d", "a", "s", "h", "b", "o", "a", "r", "d">>
B_WelcomeBack == <<"W", "e", "l", "c", "o", "m", "e", " ", "b", "a", "c", "k">>
B_LogIn == <<"L", "o", "g", " ", "i", "n">>
B_Dashboard == <<"D", "a", "s", "h", "b", "o", "a", "r", "d">>

LoginPage(url, email, password, body, form, fails, indicators) ==
    [ url |-> url, email |-> email, password |-> password, body |-> body,
      form |-> form, fails |-> fails, indicators |-> indicators ]

\* the pages of the model
LoginPages ==
    { LoginPage(U_Login, FALSE, FALSE, <<>>, FALSE, FALSE, {}),
      LoginPage(U_Login, FALSE, FALSE, B_Dashboard, FALSE, FALSE, {1, 5}),
      LoginPage(U_Home, TRUE, TRUE, <<>>, FALSE, FALSE, {}),
      LoginPage(U_Home, FALSE, FALSE, B_WelcomeBack, TRUE, FALSE, {5}),
      LoginPage(U_Home, FALSE, FALSE, B_LogIn, FALSE, FALSE, {}),
      LoginPage(U_Home, TRUE, TRUE, <<>>, FALSE, TRUE, {}),
      LoginPage(U_Login, TRUE, TRUE, <<>>, FALSE, TRUE, {1}),
      LoginPage(U_Home, FALSE, FALSE, B_Dashboard, FALSE, FALSE, {5}),
      LoginPage(U_Dashboard, FALSE, FALSE, B_Dashboard, FALSE, FALSE, {}) }

\* is_login_page on the pages of the model, computed once
LoginClassification == [ p \in LoginPages |-> is_login_page(p) ]

IsLogin(pg) == LoginClassification[pg]

\* lines 410-417
authenticated_indicators ==
    << "button:has-text('Profile')", "button:has-text('Settings')", "[data-testid*='user']",
       "[class*='user-menu']", "[class*='avatar']", "img[alt*='avatar']" >>

\* line 382, in milliseconds
check_interval == 2000

MaxTimeoutSeconds == 7

MaxChanges == 2

Timeouts == { 1000 * t : t \in (-1)..MaxTimeoutSeconds }

\* a variant in which the first two signals never fire
NeverGone(isLogin) == FALSE

\* line 396 and line 402: a signal fires when is_login_page returned False
NotLogin(isLogin) == ~isLogin

\* a variant in which the first look is enough
GoneAtFirstLook(isLogin) == TRUE

\* line 405: the second look, after the settle delay
StillGone(isLogin) == ~isLogin

\* a variant in which an indicator counts on its own
IndicatorAlone(isLogin) == TRUE

\* line 425: the indicator counts only if is_login_page returned False
IndicatorConfirms(isLogin) == ~isLogin

\* a variant in which the timeout itself is still inside the wait
TimedOutStrictly(el, to) == el > to

\* a variant in which the test always ends the loop
AlwaysTimedOut(el, to) == TRUE

\* line 390
TimedOut(el, to) == el >= to

---------------------------------------------------------------------------
(* Navigator.wait_for_login: actions                                         *)

InitLogin ==
    /\ wpc = "start"
    /\ timeout \in Timeouts
    /\ lpage \in LoginPages
    /\ start_url = <<>>
    /\ now = 0
    /\ elapsed = 0
    /\ last_progress_message = 0
    /\ indicator_index = 0
    /\ changes = 0
    /\ allLogin = TRUE
    /\ stableSinceTop = FALSE
    /\ leftLoginAt = IF IsLogin(lpage) THEN -1 ELSE 0
    /\ returned = FALSE
    /\ TaskIdle
    /\ FindIdle
    /\ CallIdle

\* lines 378-383
WaitStart ==
    /\ wpc = "start"
    /\ start_url' = lpage.url
    /\ wpc' = "top"
    /\ UNCHANGED << timeout, now, elapsed, last_progress_message, indicator_index, lpage,
                    changes, allLogin, stableSinceTop, leftLoginAt, returned >>
    /\ UNCHANGED << taskVars, findVars, callVars >>

\* lines 385-391 and 446-447: the timeout test at the top of an iteration
WaitTop ==
    /\ wpc = "top"
    /\ elapsed' = now
    /\ IF TimedOut(now, timeout)
       THEN /\ wpc' = "returned"
            /\ returned' = FALSE
            /\ UNCHANGED stableSinceTop
       ELSE /\ wpc' = "url_changed"
            /\ stableSinceTop' = ~IsLogin(lpage)
            /\ UNCHANGED returned
    /\ UNCHANGED << timeout, start_url, now, last_progress_message, indicator_index, lpage,
                    changes, allLogin, leftLoginAt >>
    /\ UNCHANGED << taskVars, findVars, callVars >>

\* lines 393-399: the URL changed and the page is no longer a login page
WaitUrlChanged ==
    /\ wpc = "url_changed"
    /\ IF lpage.url # start_url
       THEN /\ allLogin' = (allLogin /\ IsLogin(lpage))
            /\ IF NotLogin(IsLogin(lpage))
               THEN /\ now' = now + 2000
                    /\ wpc' = "returned"
                    /\ returned' = TRUE
               ELSE /\ wpc' = "login_gone"
                    /\ UNCHANGED << now, returned >>
       ELSE /\ wpc' = "login_gone"
            /\ UNCHANGED << allLogin, now, returned >>
    /\ UNCHANGED << timeout, start_url, elapsed, last_progress_message, indicator_index,
                    lpage, changes, stableSinceTop, leftLoginAt >>
    /\ UNCHANGED << taskVars, findVars, callVars >>

\* lines 401-404: the login page is gone; sleep 2 s before looking again
WaitLoginGone ==
    /\ wpc = "login_gone"
    /\ allLogin' = (allLogin /\ IsLogin(lpage))
    /\ IF NotLogin(IsLogin(lpage))
       THEN /\ now' = now + 2000
            /\ wpc' = "login_gone_recheck"
            /\ UNCHANGED indicator_index
       ELSE /\ wpc' = "indicators"
            /\ indicator_index' = 1
            /\ UNCHANGED now
    /\ UNCHANGED << timeout, start_url, elapsed, last_progress_message, lpage, changes,
                    stableSinceTop, leftLoginAt, returned >>
    /\ UNCHANGED << taskVars, findVars, callVars >>

\* lines 405-407: the second look
WaitLoginGoneRecheck ==
    /\ wpc = "login_gone_recheck"
    /\ allLogin' = (allLogin /\ IsLogin(lpage))
    /\ IF StillGone(IsLogin(lpage))
       THEN /\ wpc' = "returned"
            /\ returned' = TRUE
            /\ UNCHANGED indicator_index
       ELSE /\ wpc' = "indicators"
            /\ indicator_index' = 1
            /\ UNCHANGED returned
    /\ UNCHANGED << timeout, start_url, now, elapsed, last_progress_message, lpage, changes,
                    stableSinceTop, leftLoginAt >>
    /\ UNCHANGED << taskVars, findVars, callVars >>

\* lines 419-424 and 428-429: query one indicator; sleep 1 s if it is there
WaitIndicator ==
    /\ wpc = "indicators"
    /\ indicator_index <= Len(authenticated_indicators)
    /\ IF ~lpage.fails /\ indicator_index \in lpage.indicators
       THEN /\ now' = now + 1000
            /\ wpc' = "indicator_recheck"
            /\ UNCHANGED indicator_index
       ELSE /\ indicator_index' = indicator_index + 1
            /\ UNCHANGED << now, wpc >>
    /\ UNCHANGED << timeout, start_url, elapsed, last_progress_message, lpage, changes,
                    allLogin, stableSinceTop, leftLoginAt, returned >>
    /\ UNCHANGED << taskVars, findVars, callVars >>

\* lines 425-427: the indicator is there; is the login page gone?
WaitIndicatorRecheck ==
    /\ wpc = "indicator_recheck"
    /\ allLogin' = (allLogin /\ IsLogin(lpage))
    /\ IF IndicatorConfirms(IsLogin(lpage))
       THEN /\ wpc' = "returned"
            /\ returned' = TRUE
            /\ UNCHANGED indicator_index
       ELSE /\ wpc' = "indicators"
            /\ indicator_index' = indicator_index + 1
            /\ UNCHANGED returned
    /\ UNCHANGED << timeout, start_url, now, elapsed, last_progress_message, lpage, changes,
                    stableSinceTop, leftLoginAt >>
    /\ UNCHANGED << taskVars, findVars, callVars >>

\* a variant in which every poll after the first reports progress
ProgressEveryPoll(elapsed_seconds, last) == elapsed_seconds > 0

\* line 433: is a progress message due?
ProgressDue(elapsed_seconds, last) ==
    elapsed_seconds - last >= 30 /\ elapsed_seconds > 0

\* lines 431-439: the progress message and the sleep before the next iteration
WaitSleep ==
    /\ wpc = "indicators"
    /\ indicator_index > Len(authenticated_indicators)
    /\ LET elapsed_seconds == elapsed \div 1000
       IN  last_progress_message' =
               IF ProgressDue(elapsed_seconds, last_progress_message)
               THEN elapsed_seconds ELSE last_progress_message
    /\ now' = now + check_interval
    /\ wpc' = "top"
    /\ UNCHANGED << timeout, start_url, elapsed, indicator_index, lpage, changes, allLogin,
                    stableSinceTop, leftLoginAt, returned >>
    /\ UNCHANGED << taskVars, findVars, callVars >>

\* the user, or the application, changes the page while the wait is running
PageChanges ==
    /\ wpc \notin { "idle", "returned" }
    /\ changes < MaxChanges
    /\ \E p \in LoginPages \ { lpage } :
          /\ lpage' = p
          /\ stableSinceTop' = (stableSinceTop /\ ~IsLogin(p))
          /\ leftLoginAt' = IF IsLogin(p) THEN -1
                            ELSE IF leftLoginAt = -1 THEN now ELSE leftLoginAt
    /\ changes' = changes + 1
    /\ UNCHANGED << wpc, timeout, start_url, now, elapsed, last_progress_message,
                    indicator_index, allLogin, returned >>
    /\ UNCHANGED << taskVars, findVars, callVars >>

NextLogin ==
    \/ WaitStart
    \/ WaitTop
    \/ WaitUrlChanged
    \/ WaitLoginGone
    \/ WaitLoginGoneRecheck
    \/ WaitIndicator
    \/ WaitIndicatorRecheck
    \/ WaitSleep
    \/ PageChanges

SpecLogin == InitLogin /\ [][NextLogin]_vars

\* the steps of wait_for_login itself: the event loop runs the coroutine on,
\* and each sleep ends
WaitStep ==
    \/ WaitStart
    \/ WaitTop
    \/ WaitUrlChanged
    \/ WaitLoginGone
    \/ WaitLoginGoneRecheck
    \/ WaitIndicator
    \/ WaitIndicatorRecheck
    \/ WaitSleep

SpecLoginFair == InitLogin /\ [][NextLogin]_vars /\ WF_vars(WaitStep)

---------------------------------------------------------------------------
(* Navigator.wait_for_login: a long wait                                     *)

\* the timeout of the long wait, in seconds: long enough for two progress
\* messages on every page of the model
LongWaitSeconds == 66

\* a wait with a long timeout, during which the page changes at most once
InitLongWait ==
    /\ wpc = "start"
    /\ timeout = 1000 * LongWaitSeconds
    /\ lpage \in LoginPages
    /\ start_url = <<>>
    /\ now = 0
    /\ elapsed = 0
    /\ last_progress_message = 0
    /\ indicator_index = 0
    /\ changes = MaxChanges - 1
    /\ allLogin = TRUE
    /\ stableSinceTop = FALSE
    /\ leftLoginAt = IF IsLogin(lpage) THEN -1 ELSE 0
    /\ returned = FALSE
    /\ TaskIdle
    /\ FindIdle
    /\ CallIdle

SpecLongWait == InitLongWait /\ [][NextLogin]_vars

---------------------------------------------------------------------------
(* AgentB.execute_task: properties                                           *)

\* page.goto returned: the run got past the initial navigation
NavigationSucceeded == pageLog # <<>> /\ pageLog[1].op = "goto"

Intents == { "login", "click", "fill", "wait", "generic" }

\* C1: once the initial navigation has succeeded, the steps of the workflow
\* are dispatched one by one in workflow order, each exactly once: the k-th
\* dispatch is that of step k, the loop is never ahead of or behind its
\* dispatches, and at the return every step has been dispatched, whichever
\* steps failed, timed out or raised on the way.
C1_EveryStepDispatchedInOrder ==
    /\ \A k \in 1..Len(dispatched) : dispatched[k].idx = k
    /\ Len(dispatched) <= Len(workflow.steps)
    /\ (pc = "loop" /\ i - 1 <= Len(workflow.steps) => Len(dispatched) = i - 2)
    /\ ((pc = "loop" /\ i - 1 > Len(workflow.steps)) \/ (pc = "returned" /\ NavigationSucceeded)
          => Len(dispatched) = Len(workflow.steps))

\* a run of three steps that returned although the first raised, the login
\* wait of the second timed out and the click of the third failed
C1_Witness ==
    /\ pc = "returned"
    /\ Len(workflow.steps) = 3
    /\ Len(dispatched) = 3
    /\ dispatched[1].outcome = "raised"
    /\ dispatched[2].outcome = "timeout"
    /\ dispatched[3].outcome = "failed"

\* C2: every step whose resolution or interaction failed (click, fill with an
\* extracted value, generic) has an entry in the errors list, and a run with
\* such a step returns success false.
C2_FailedStepsRecorded ==
    /\ \A k \in 1..Len(dispatched) :
          dispatched[k].outcome = "failed"
            => \E e \in 1..Len(results.errors) :
                  results.errors[e].step = workflow.steps[dispatched[k].idx]
    /\ (pc = "returned" /\ (\E k \in 1..Len(dispatched) : dispatched[k].outcome = "failed")
          => results.success = FALSE)

\* C3: when execute_task has returned, success is true exactly if the errors
\* list is empty, on the normal path and on the fatal path.
C3_SuccessIffNoErrors ==
    pc = "returned" => (results.success <=> results.errors = <<>>)

\* a run that collected a step error, went through the whole loop and
\* returned from the final capture with the flag computed from the errors
C3_Witness ==
    /\ pc = "returned"
    /\ NavigationSucceeded
    /\ Len(dispatched) = Len(workflow.steps)
    /\ Len(results.errors) = 1
    /\ results.errors[1].kind = "failed"
    /\ results.success = FALSE

\* C4: no exception of a run leaves execute_task: an exception outside the
\* per-step boundary ends in the task-level handler, never at the caller.
C4_NeverRaisesToCaller == pc # "raised"

\* C8: every dispatched step has exactly one of the five intents, the one of
\* the first rule that matches in the order login, click, fill, wait, generic;
\* a step dispatched as login makes no click_element or fill_input call.
C8_IntentByPriority ==
    \A k \in 1..Len(dispatched) :
        LET step == workflow.steps[dispatched[k].idx]
            d == dispatched[k].intent
            step_lower == Lower(step)
            login == ContainsAny(step_lower, LoginWords)
            click == ContainsAny(step_lower, ClickWords)
            fill == ContainsAny(step_lower, FillWords)
            wait == ContainsAny(step_lower, WaitWords)
        IN  /\ d \in Intents
            /\ (login => d = "login")
            /\ (~login /\ click => d = "click")
            /\ (~login /\ ~click /\ fill => d = "fill")
            /\ (~login /\ ~click /\ ~fill /\ wait => d = "wait")
            /\ (~login /\ ~click /\ ~fill /\ ~wait => d = "generic")
            /\ (d = "login" =>
                  \A p \in 1..Len(pageLog) :
                      pageLog[p].op \in { "click", "fill" } => pageLog[p].target # step)

\* "log in and click continue" was dispatched, as a login step, and the run
\* went on to return
C8_Witness ==
    /\ pc = "returned"
    /\ \E k \in 1..Len(dispatched) :
          /\ workflow.steps[dispatched[k].idx] = S_LogInClick
          /\ dispatched[k].intent = "login"
          /\ dispatched[k].outcome = "ok"

---------------------------------------------------------------------------
(* Navigator.find_element_by_description: properties                         *)

CascadeOrder == << "text content", "aria label", "role", "placeholder", "semantic" >>

CascadeMethod == << "text_content", "aria_label", "role", "placeholder", "semantic" >>

\* the strategy, called on its own on the page, returns a match
Yields(k) == RunStrategy(CascadeOrder[k], page, description).match.method # "None"

\* the first strategy of the cascade that returns a match (0 if none does)
FirstYielding ==
    IF \E k \in 1..5 : Yields(k) THEN CHOOSE k \in 1..5 : Yields(k) /\ \A j \in 1..(k - 1) : ~Yields(j)
    ELSE 0

\* C5: on a page where no strategy finds an element, whether its waits time
\* out or its calls raise, the call has invoked all five strategies when it
\* returns, and it returns None.
C5_NotFoundAfterAllFive ==
    /\ (fpc = "returned" /\ found = NoMatch => calls = CascadeOrder)
    /\ (fpc = "returned" /\ (\A k \in 1..5 : ~Yields(k)) => found = NoMatch /\ calls = CascadeOrder)

\* a call that returned None on a page that is not empty, after waits that
\* timed out and a language-model call that raised
C5_Witness ==
    /\ fpc = "returned"
    /\ found = NoMatch
    /\ page.elements # {}
    /\ page.llm = "llm_raises"
    /\ \E q \in 1..Len(queries) : queries[q].ret = "TimeoutError"
    /\ \E q \in 1..Len(queries) : queries[q].ret = "Error"
    /\ Len(calls) = 5

\* C6: the strategies are invoked in the order text content, aria label, role,
\* placeholder, semantic, each at most once; the call returns the match of the
\* first strategy in that order that yields one and invokes none after it; the
\* language model is asked only if the four structural strategies returned no
\* match.
C6_FirstMatchInCascadeOrder ==
    /\ Len(calls) <= 5
    /\ \A k \in 1..Len(calls) : calls[k] = CascadeOrder[k]
    /\ (fpc = "run" => Len(calls) = strategy_index - 1
                        /\ \A k \in 1..Len(calls) : ~Yields(k))
    /\ (fpc = "returned" /\ FirstYielding # 0
          => /\ Len(calls) = FirstYielding
             /\ found = RunStrategy(CascadeOrder[FirstYielding], page, description).match)
    /\ ((\E q \in 1..Len(queries) : queries[q].q = "chat.completions.create")
          => \A k \in 1..4 : ~Yields(k))

\* a call that returned the aria-label match on a page where the placeholder
\* strategy would have matched too, after two invocations
C6_Witness ==
    /\ fpc = "returned"
    /\ found.method = "aria_label"
    /\ calls = << "text content", "aria label" >>
    /\ _find_by_placeholder(page, description).match.method # "None"
    /\ page.llm = "hit"

\* the attempts a strategy makes on the page when none of them ends it
StrategyAttempts(k) ==
    LET keywords == _extract_keywords(description)
    IN  CASE k = 1 -> TextAttempts(page, keywords)
          [] k = 2 -> AriaAttempts(page, keywords)
          [] k = 3 -> RoleAttempts(page, description, keywords)
          [] k = 4 -> PlaceholderAttempts(page, keywords)
          [] k = 5 -> SemanticAttempts(page)

\* the page holds a visible element for one of the strategy's queries: the
\* page driver's wait on it comes back instead of timing out
HasVisibleMatch(k) ==
    \E a \in 1..Len(StrategyAttempts(k)) :
        StrategyAttempts(k)[a].ret \in { "ElementHandle", "None" }

\* C7: where exactly one of the five strategies has a matching visible
\* element, the call returns a match produced by that strategy.
C7_OnlyMatchingStrategyWins ==
    fpc = "returned"
      => \A k \in 1..5 :
            (HasVisibleMatch(k) /\ \A j \in (1..5) \ {k} : ~HasVisibleMatch(j))
              => found.method = CascadeMethod[k]

---------------------------------------------------------------------------
(* Navigator.wait_for_login: properties                                      *)

\* C9: a wait in which every is_login_page call returned True does not
\* return True, whatever the URL did and whichever indicators were there.
C9_NoSuccessOnLoginPage ==
    wpc = "returned" /\ returned = TRUE => ~allLogin

\* a wait that returned False at the timeout on a page that was a login page
\* each time it was asked, with another URL than at the start and with
\* authenticated-user indicators on it
C9_Witness ==
    /\ wpc = "returned"
    /\ returned = FALSE
    /\ allLogin
    /\ timeout > 0
    /\ lpage.url # start_url
    /\ lpage.indicators # {}
    /\ IsLogin(lpage)

---------------------------------------------------------------------------
(* Single calls: is_login_page                                               *)

U_SignIn == <<"h", "t", "t", "p", "s", ":", "/", "/", "a", "p", "p", ".", "t", "e", "s", "t", "/", "S", "i", "g", "n", "-", "I", "n">>
B_PleaseSignIn == <<"P", "l", "e", "a", "s", "e", " ", "s", "i", "g", "n", " ", "i", "n", " ", "t", "o", " ", "c", "o", "n", "t", "i", "n", "u", "e">>

Call(c, a) == [ callee |-> c, arg |-> a ]

\* the pages is_login_page is called on
ClassifyCalls ==
    { Call("is_login_page", LoginPage(u, e, p, b, f, x, {})) :
        u \in { U_Login, U_SignIn, U_Home, U_Dashboard },
        e \in BOOLEAN, p \in BOOLEAN,
        b \in { <<>>, B_WelcomeBack, B_PleaseSignIn, B_Dashboard },
        f \in BOOLEAN, x \in BOOLEAN }

\* lines 308-359
IsLoginPageCall ==
    /\ cpc = "call"
    /\ callee = "is_login_page"
    /\ result' = is_login_page(arg)
    /\ cpc' = "returned"
    /\ UNCHANGED << callee, arg, trace >>
    /\ UNCHANGED << taskVars, findVars, loginVars >>

---------------------------------------------------------------------------
(* Single calls: parse_task and _fallback_parse                              *)

Q_NotionLinear == <<"M", "o", "v", "e", " ", "m", "y", " ", "N", "o", "t", "i", "o", "n", " ", "p", "a", "g", "e", " ", "t", "o", " ", "L", "i", "n", "e", "a", "r">>
Q_Asana == <<"f", "i", "l", "t", "e", "r", " ", "t", "h", "e", " ", "A", "s", "a", "n", "a", " ", "d", "a", "t", "a", "b", "a", "s", "e", " ", "b", "y", " ", "s", "t", "a", "t", "u", "s">>
Q_Trello == <<"C", "h", "a", "n", "g", "e", " ", "t", "h", "e", " ", "t", "h", "e", "m", "e", " ", "o", "n", " ", "T", "R", "E", "L", "L", "O">>
Q_Excel == <<"H", "o", "w", " ", "d", "o", " ", "I", " ", "s", "o", "r", "t", " ", "a", " ", "t", "a", "b", "l", "e", " ", "i", "n", " ", "E", "x", "c", "e", "l", "?">>
Q_NoApp == <<"c", "r", "e", "a", "t", "e", " ", "a", " ", "p", "r", "o", "j", "e", "c", "t">>

ParseQuestions == { Q_Linear, Q_Jira, Q_NotionLinear, Q_Asana, Q_Trello, Q_Excel, Q_NoApp, <<>> }

\* what the primary path of parse_task can meet: the outcomes of the task
\* model, an empty JSON object, and a workflow whose step list is empty
ParseOutcomes ==
    LLMOutcomes
    \cup { [ kind |-> "json", value |-> NoWorkflow ],
           [ kind |-> "json",
             value |-> [ has |-> WorkflowFields, app_name |-> Capitalize(W_notion),
                         action |-> W_filter, steps |-> <<>>, base_url |-> U_notion ] ] }

ParseCalls ==
    { Call("parse_task", [ question |-> q, llm |-> l ]) :
        q \in ParseQuestions, l \in ParseOutcomes }

FallbackCalls == { Call("_fallback_parse", [ question |-> q ]) : q \in ParseQuestions }

\* task_parser.py lines 19-83
ParseTaskCall ==
    /\ cpc = "call"
    /\ callee = "parse_task"
    /\ result' = parse_task(arg.question, arg.llm)
    /\ cpc' = "returned"
    /\ UNCHANGED << callee, arg, trace >>
    /\ UNCHANGED << taskVars, findVars, loginVars >>

\* task_parser.py lines 85-123
FallbackParseCall ==
    /\ cpc = "call"
    /\ callee = "_fallback_parse"
    /\ result' = _fallback_parse(arg.question)
    /\ cpc' = "returned"
    /\ UNCHANGED << callee, arg, trace >>
    /\ UNCHANGED << taskVars, findVars, loginVars >>

---------------------------------------------------------------------------
(* Single calls: _extract_keywords                                           *)

K_SaveButton == <<"C", "l", "i", "c", "k", " ", "\t", "t", "h", "e", " ", " ", "S", "a", "v", "e", " ", " ", "b", "u", "t", "t", "o", "n">>
K_Submit == <<"S", "u", "b", "m", "i", "t">>
K_submit == <<"s", "u", "b", "m", "i", "t">>
K_Go == <<"G", "o">>
K_add == <<"a", "d", "d">>
K_the == <<"t", "h", "e">>
K_Stops == <<" ", "a", " ", "a", "n", " ", "o", "f", " ", "t", "o", " ">>
K_Repeat == <<"n", "e", "w", " ", "n", "e", "w", " ", "i", "t", "e", "m">>

KeywordInputs ==
    { K_SaveButton, K_Submit, K_submit, K_Go, K_add, K_the, K_Stops, K_Repeat, <<>>,
      D_CreateButton, D_NameField, S_ClickCreate, S_FillName, S_LogInClick, Q_Linear }

KeywordCalls == { Call("_extract_keywords", d) : d \in KeywordInputs }

\* navigator.py lines 190-203
ExtractKeywordsCall ==
    /\ cpc = "call"
    /\ callee = "_extract_keywords"
    /\ result' = _extract_keywords(arg)
    /\ cpc' = "returned"
    /\ UNCHANGED << callee, arg, trace >>
    /\ UNCHANGED << taskVars, findVars, loginVars >>

---------------------------------------------------------------------------
(* Single calls: click_element and fill_input                                *)

\* the page behaviours of one call: whether find_element_by_description
\* returns a match, and which calls on the resolved element raise
InteractCalls ==
    { Call("click_element",
           [ found |-> f, scroll_raises |-> s, act_raises |-> a, wait_raises |-> w,
             wait_for_state_change |-> c ]) :
        f \in BOOLEAN, s \in BOOLEAN, a \in BOOLEAN, w \in BOOLEAN, c \in BOOLEAN }
    \cup
    { Call("fill_input",
           [ found |-> f, scroll_raises |-> s, act_raises |-> a, wait_raises |-> FALSE,
             wait_for_state_change |-> FALSE ]) :
        f \in BOOLEAN, s \in BOOLEAN, a \in BOOLEAN }

Interacting == callee \in { "click_element", "fill_input" }

\* a variant without the except clause: the exception leaves the call
ExceptionPropagates == [ cpc |-> "raised", result |-> <<>> ]

\* lines 238-240 and 265-267: `except Exception`: return False
ExceptionCaught == [ cpc |-> "returned", result |-> FALSE ]

\* lines 216-220 and 253-257: resolve the element; return False if there is none
InteractResolve ==
    /\ cpc = "call"
    /\ Interacting
    /\ trace' = Append(trace, "find_element_by_description")
    /\ IF arg.found
       THEN cpc' = "scroll" /\ UNCHANGED result
       ELSE cpc' = "returned" /\ result' = FALSE
    /\ UNCHANGED << callee, arg >>
    /\ UNCHANGED << taskVars, findVars, loginVars >>

\* lines 226 and 261: element.scroll_into_view_if_needed()
InteractScroll ==
    /\ cpc = "scroll"
    /\ trace' = Append(trace, "scroll_into_view_if_needed")
    /\ IF arg.scroll_raises
       THEN cpc' = ExceptionCaught.cpc /\ result' = ExceptionCaught.result
       ELSE cpc' = "act" /\ UNCHANGED result
    /\ UNCHANGED << callee, arg >>
    /\ UNCHANGED << taskVars, findVars, loginVars >>

\* lines 229 and 262: element.click() or element.fill(value); fill_input, and
\* click_element without wait_for_state_change, return True after it
InteractAct ==
    /\ cpc = "act"
    /\ trace' = Append(trace, IF callee = "click_element" THEN "click" ELSE "fill")
    /\ IF arg.act_raises
       THEN cpc' = ExceptionCaught.cpc /\ result' = ExceptionCaught.result
       ELSE IF callee = "click_element" /\ arg.wait_for_state_change
       THEN cpc' = "wait" /\ UNCHANGED result
       ELSE cpc' = "returned" /\ result' = TRUE
    /\ UNCHANGED << callee, arg >>
    /\ UNCHANGED << taskVars, findVars, loginVars >>

\* lines 231-236: page.wait_for_timeout(1000), then return True
InteractWait ==
    /\ cpc = "wait"
    /\ trace' = Append(trace, "wait_for_timeout")
    /\ IF arg.wait_raises
       THEN cpc' = ExceptionCaught.cpc /\ result' = ExceptionCaught.result
       ELSE cpc' = "returned" /\ result' = TRUE
    /\ UNCHANGED << callee, arg >>
    /\ UNCHANGED << taskVars, findVars, loginVars >>

---------------------------------------------------------------------------
(* Single calls: wait_for_modal_or_form                                      *)

\* lines 278-284
modal_selectors ==
    << "[role='dialog']", ".modal", "[class*='modal']", "[class*='dialog']",
       "[class*='overlay']" >>

\* one call: which of the selectors become visible within the wait, and
\* whether page.wait_for_timeout raises
ModalCalls ==
    { Call("wait_for_modal_or_form", [ visible |-> v, timeout_raises |-> x ]) :
        v \in SUBSET (1..Len(modal_selectors)), x \in BOOLEAN }

\* lines 286-291: the selectors waited for, up to the first that is visible
ModalWaits(a) ==
    LET hits == { k \in 1..Len(modal_selectors) : k \in a.visible }
        last == IF hits = {} THEN Len(modal_selectors)
                ELSE CHOOSE k \in hits : \A x \in hits : k <= x
    IN  [ k \in 1..last |-> modal_selectors[k] ]

\* lines 276-298
wait_for_modal_or_form(a) ==
    IF \E k \in 1..Len(modal_selectors) : Truthy(WaitForSelector(k \in a.visible))
    THEN TRUE
    ELSE IF a.timeout_raises THEN FALSE
    ELSE TRUE

WaitForModalCall ==
    /\ cpc = "call"
    /\ callee = "wait_for_modal_or_form"
    /\ trace' = IF arg.visible = {} THEN Append(ModalWaits(arg), "wait_for_timeout")
                ELSE ModalWaits(arg)
    /\ result' = wait_for_modal_or_form(arg)
    /\ cpc' = "returned"
    /\ UNCHANGED << callee, arg >>
    /\ UNCHANGED << taskVars, findVars, loginVars >>

---------------------------------------------------------------------------
(* Single calls: _extract_value_from_step                                    *)

V_SetValue == <<"S", "e", "t", " ", "v", "a", "l", "u", "e", ":", " ", "4", "2">>
V_EnterValueUpper == <<"E", "n", "t", "e", "r", " ", "V", "A", "L", "U", "E", ":", " ", "a", "b", "c", " ", "d", "e", "f">>
V_QuotedAndValue == <<"T", "y", "p", "e", " ", "'", "a", " ", "b", "'", " ", "v", "a", "l", "u", "e", ":", " ", "z">>
V_ValueFor == <<"E", "n", "t", "e", "r", " ", "a", " ", "v", "a", "l", "u", "e", " ", "f", "o", "r", " ", "t", "h", "e", " ", "t", "i", "t", "l", "e">>
V_DoubleQuoted == <<"F", "i", "l", "l", " ", "t", "i", "t", "l", "e", " ", "w", "i", "t", "h", " ", "\"", "Q", "2", " ", "p", "l", "a", "n", "\"">>

\* the step texts _extract_value_from_step is called on
ValueInputs ==
    { S_FillName, S_TypeTitle, S_ClickCreate, V_SetValue, V_EnterValueUpper,
      V_QuotedAndValue, V_ValueFor, V_DoubleQuoted, <<>> }

ValueCalls == { Call("_extract_value_from_step", d) : d \in ValueInputs }

\* agent_b.py lines 371-386
ExtractValueCall ==
    /\ cpc = "call"
    /\ callee = "_extract_value_from_step"
    /\ result' = _extract_value_from_step(arg)
    /\ cpc' = "returned"
    /\ UNCHANGED << callee, arg, trace >>
    /\ UNCHANGED << taskVars, findVars, loginVars >>

---------------------------------------------------------------------------
(* Single calls: the specification                                           *)

Calls ==
    ClassifyCalls \cup ParseCalls \cup FallbackCalls \cup KeywordCalls \cup InteractCalls
        \cup ModalCalls \cup ValueCalls

InitCall ==
    /\ cpc = "call"
    /\ \E c \in Calls : callee = c.callee /\ arg = c.arg
    /\ trace = <<>>
    /\ result = <<>>
    /\ TaskIdle
    /\ FindIdle
    /\ LoginIdle

NextCall ==
    \/ IsLoginPageCall
    \/ ParseTaskCall
    \/ FallbackParseCall
    \/ ExtractKeywordsCall
    \/ InteractResolve
    \/ InteractScroll
    \/ InteractAct
    \/ InteractWait
    \/ WaitForModalCall
    \/ ExtractValueCall

SpecCall == InitCall /\ [][NextCall]_vars

---------------------------------------------------------------------------
(* Single calls: properties                                                  *)

Returned(c) == cpc = "returned" /\ callee = c

\* C12: when no page query fails, is_login_page returns True exactly if the
\* lower-cased URL contains a login-path pattern, or an email/username input
\* and a password input are both there, or the body text contains a login
\* phrase and the page holds a form; a page with only the two inputs is
\* classified True, a page with none of the three False.
C12_LoginPageIffEitherSignal ==
    Returned("is_login_page") /\ ~arg.fails
      => LET a == \E w \in login_url_patterns : Contains(Lower(arg.url), w)
             b == arg.email /\ arg.password
             c == (\E w \in login_text_indicators : Contains(Lower(arg.body), w)) /\ arg.form
         IN  /\ result = (a \/ b \/ c)
             /\ (arg.url = U_Home /\ b /\ arg.body = <<>> /\ ~arg.form => result = TRUE)
             /\ (arg.url \in { U_Home, U_Dashboard } /\ ~arg.email /\ ~arg.password
                   /\ arg.body \in { <<>>, B_Dashboard } => result = FALSE)

\* a page with an email and a password input, no login URL, no text and no
\* form, classified True
C12_Witness ==
    /\ Returned("is_login_page")
    /\ result = TRUE
    /\ arg.url = U_Home
    /\ arg.email /\ arg.password
    /\ arg.body = <<>>
    /\ ~arg.form
    /\ ~arg.fails

\* a workflow with the four fields and at least one step
WellFormed(wf) == wf.has = {"app_name", "action", "steps", "base_url"} /\ Len(wf.steps) >= 1

\* C13: every workflow parse_task returns, from the primary path or from the
\* fallback, has the fields app_name, action, steps and base_url and at
\* least one step.
C13_WorkflowWellFormed ==
    Returned("parse_task") => WellFormed(result)

PrimaryFailures == { l \in ParseOutcomes : l.kind # "json" }

\* C14: when the primary path fails (the language-model call raises, or its
\* text does not decode), parse_task returns the fallback's workflow for the
\* question: a well-formed workflow, the same whichever way the primary path
\* failed.
C14_FallbackOnPrimaryFailure ==
    Returned("parse_task") /\ arg.llm.kind # "json"
      => /\ result = _fallback_parse(arg.question)
         /\ WellFormed(result)
         /\ \A l \in PrimaryFailures : parse_task(arg.question, l) = result

\* a call whose language-model text did not decode and which returned the
\* four-step workflow of the fallback
C14_Witness ==
    /\ Returned("parse_task")
    /\ arg.llm.kind = "undecodable"
    /\ arg.question = Q_Asana
    /\ Len(result.steps) = 4
    /\ result.action = <<"f", "i", "l", "t", "e", "r">>

KnownApps == << <<"l", "i", "n", "e", "a", "r">>, <<"n", "o", "t", "i", "o", "n">>,
                <<"a", "s", "a", "n", "a">>, <<"t", "r", "e", "l", "l", "o">>,
                <<"j", "i", "r", "a">> >>

KnownAppNames == << <<"L", "i", "n", "e", "a", "r">>, <<"N", "o", "t", "i", "o", "n">>,
                    <<"A", "s", "a", "n", "a">>, <<"T", "r", "e", "l", "l", "o">>,
                    <<"J", "i", "r", "a">> >>

Occurs(text, word) == Contains(Lower(text), word)

\* C15: the fallback's app_name is the capitalised first name in the order
\* linear, notion, asana, trello, jira that occurs in the question whatever
\* its case, else "Unknown"; its action is "create project", "filter",
\* "update settings" or "perform task" by the first rule that applies; its
\* steps are the four-step template.  "How do I create a project in Linear?"
\* gives Linear, create project, https://linear.app.
C15_FallbackFields ==
    Returned("_fallback_parse")
      => LET q == arg.question
             create == Occurs(q, <<"c", "r", "e", "a", "t", "e">>)
                         /\ Occurs(q, <<"p", "r", "o", "j", "e", "c", "t">>)
             filter == Occurs(q, <<"f", "i", "l", "t", "e", "r">>)
             update == Occurs(q, <<"c", "h", "a", "n", "g", "e">>)
                         \/ Occurs(q, <<"u", "p", "d", "a", "t", "e">>)
         IN  /\ \A k \in 1..5 :
                  Occurs(q, KnownApps[k]) /\ (\A j \in 1..(k - 1) : ~Occurs(q, KnownApps[j]))
                    => result.app_name = KnownAppNames[k]
             /\ ((\A k \in 1..5 : ~Occurs(q, KnownApps[k]))
                   => result.app_name = <<"U", "n", "k", "n", "o", "w", "n">>)
             /\ (create => result.action = A_create_project)
             /\ (~create /\ filter => result.action = <<"f", "i", "l", "t", "e", "r">>)
             /\ (~create /\ ~filter /\ update => result.action = A_update_settings)
             /\ (~create /\ ~filter /\ ~update => result.action = A_perform_task)
             /\ result.steps = << T_navigate, T_find_and_click \o result.action,
                                  T_fill_forms, T_complete >>
             /\ (q = Q_Linear
                   => /\ result.app_name = <<"L", "i", "n", "e", "a", "r">>
                      /\ result.action = <<"c", "r", "e", "a", "t", "e", " ", "p", "r", "o", "j", "e", "c", "t">>
                      /\ result.base_url = <<"h", "t", "t", "p", "s", ":", "/", "/", "l", "i", "n", "e", "a", "r", ".", "a", "p", "p">>
                      /\ Len(result.steps) >= 1)

\* the fallback on a question that names Notion before Linear: Linear, the
\* first in the fixed order, is the application
C15_Witness ==
    /\ Returned("_fallback_parse")
    /\ arg.question = Q_NotionLinear
    /\ result.app_name = <<"L", "i", "n", "e", "a", "r">>
    /\ result.action = A_perform_task

\* C16: the fallback gives the placeholder URL only to a question in which no
\* application is recognised; a recognised application gets a URL of its own.
C16_PlaceholderOnlyIfUnknown ==
    Returned("_fallback_parse")
      => (result.base_url = <<"h", "t", "t", "p", "s", ":", "/", "/", "e", "x", "a", "m", "p", "l", "e", ".", "c", "o", "m">>
            <=> result.app_name = <<"U", "n", "k", "n", "o", "w", "n">>)

\* C17: click_element and fill_input never raise: each returns a boolean,
\* True exactly if the element was resolved and the scroll, the click or fill
\* and, for a click with wait_for_state_change, the wait all completed
\* without raising.
C17_InteractionsReturnBoolean ==
    Interacting
      => /\ cpc # "raised"
         /\ (cpc = "returned"
               => /\ result \in BOOLEAN
                  /\ result = (/\ arg.found
                               /\ ~arg.scroll_raises
                               /\ ~arg.act_raises
                               /\ (callee = "click_element" /\ arg.wait_for_state_change
                                     => ~arg.wait_raises)))

\* a click whose element was resolved, scrolled to and clicked, and whose
\* wait for the state change raised: False
C17_Witness ==
    /\ Returned("click_element")
    /\ result = FALSE
    /\ trace = << "find_element_by_description", "scroll_into_view_if_needed", "click",
                  "wait_for_timeout" >>

\* the lower-cased whitespace-separated tokens of a description that are at
\* least three characters long and not stop words, in order
Surviving(desc) ==
    LET tokens == Split(Lower(desc))
        kept == { k \in 1..Len(tokens) : Len(tokens[k]) >= 3 /\ tokens[k] \notin stop_words }
        Nth(n) == CHOOSE k \in kept : Cardinality({ j \in kept : j <= k }) = n
    IN  [ n \in 1..Cardinality(kept) |-> tokens[Nth(n)] ]

HasSpace(term) == \E k \in 1..Len(term) : IsSpaceChar(term[k])

\* C18: _extract_keywords returns the surviving tokens in order, followed by
\* every adjacent pair of them in order: n terms when n <= 1, 2n-1 terms when
\* n >= 2, every single-word term before every two-word term.
C18_KeywordsThenPairs ==
    Returned("_extract_keywords")
      => LET kept == Surviving(arg)
             n == Len(kept)
         IN  /\ Len(result) = IF n <= 1 THEN n ELSE 2 * n - 1
             /\ \A k \in 1..n : result[k] = kept[k]
             /\ \A k \in 1..(n - 1) : result[n + k] = kept[k] \o <<" ">> \o kept[k + 1]
             /\ \A a \in 1..Len(result), b \in 1..Len(result) :
                   ~HasSpace(result[a]) /\ HasSpace(result[b]) => a < b

\* a description with a stop word and runs of whitespace between its words:
\* three surviving tokens, five terms
C18_Witness ==
    /\ Returned("_extract_keywords")
    /\ arg = K_SaveButton
    /\ Len(result) = 5
    /\ result[3] = <<"b", "u", "t", "t", "o", "n">>
    /\ result[5] = <<"s", "a", "v", "e", " ", "b", "u", "t", "t", "o", "n">>

\* the input is one word: no whitespace in it, and not empty
OneWord(desc) == desc # <<>> /\ ~HasSpace(desc)

\* C19, as the specification states it: for every one-word input that is not
\* a stop word, _extract_keywords returns exactly that word, unchanged.
C19_OneWordUnchanged ==
    Returned("_extract_keywords") /\ OneWord(arg) /\ Lower(arg) \notin stop_words
      => result = << arg >>

\* C19: for every one-word input that is lower-case, at least three
\* characters long and not a stop word, _extract_keywords returns exactly
\* that word.
C19_ExtractedKeywordUnchanged ==
    Returned("_extract_keywords") /\ OneWord(arg) /\ arg \notin stop_words
        /\ Lower(arg) = arg /\ Len(arg) >= 3
      => result = << arg >>

\* the three-letter keyword "add" came back as it went in
C19_Witness ==
    /\ Returned("_extract_keywords")
    /\ arg = K_add
    /\ result = << K_add >>

---------------------------------------------------------------------------
(* AgentB.execute_task: generic steps                                        *)

\* C20: a generic step has the effect of a click step: a generic step whose
\* click_element call failed has put a "Failed to execute step" entry into
\* the errors list, as a failed click step has, so the entries of that kind
\* are as many as the failed click and generic dispatches.
C20_GenericFailsLikeClick ==
    Cardinality({ e \in 1..Len(results.errors) : results.errors[e].kind = "failed" })
      = Cardinality({ k \in 1..Len(dispatched) :
                        /\ dispatched[k].intent \in { "click", "generic" }
                        /\ dispatched[k].outcome = "failed" })


---------------------------------------------------------------------------
(* Properties of the login branch of AgentB.execute_task                     *)

TriggerOps == { "trigger_timeout", "trigger_found", "click_login_trigger" }

\* the positions of the page log at which a login step waited for the login
LoginWaits == { p \in 1..Len(pageLog) : pageLog[p].op = "wait_for_login" }

\* the login steps whose body ran to its end
LoginDispatches ==
    { d \in 1..Len(dispatched) :
        dispatched[d].intent = "login" /\ dispatched[d].outcome # "raised" }

\* every login step that ran made one call of wait_for_login
C21_OneWaitPerLoginStep ==
    HasLoginStep(workflow.steps) => Cardinality(LoginWaits) = Cardinality(LoginDispatches)

\* the texts waited for before one wait_for_login are the login-trigger texts
\* in their order, from the first one on
C21_TriggersInOrder ==
    \A p \in 1..Len(pageLog) :
        pageLog[p].op \in { "trigger_timeout", "trigger_found" } =>
            \E k \in 1..Len(login_button_texts) :
                /\ pageLog[p].target = login_button_texts[k]
                /\ IF k = 1
                   THEN p = 1 \/ pageLog[p - 1].op \notin { "trigger_timeout", "trigger_found" }
                   ELSE /\ p > 1
                        /\ pageLog[p - 1].op \in { "trigger_timeout", "trigger_found" }
                        /\ pageLog[p - 1].target = login_button_texts[k - 1]

\* a trigger text that was found visible is clicked, and the click ends the
\* loop: the next thing the step does to the page is the login wait
C21_FoundIsClickedAndStops ==
    \A p \in 1..Len(pageLog) :
        /\ pageLog[p].op = "trigger_found" =>
              /\ p < Len(pageLog)
              /\ pageLog[p + 1] = PageOp("click_login_trigger", pageLog[p].target, <<>>)
        /\ pageLog[p].op = "click_login_trigger" =>
              /\ p < Len(pageLog)
              /\ pageLog[p + 1].op = "wait_for_login"

\* a login step resolves no element through click_element or fill_input
C21_NoResolution ==
    \A d \in 1..Len(dispatched) :
        dispatched[d].intent = "login" =>
            \A p \in 1..Len(pageLog) :
                pageLog[p].op \in { "click", "fill" } =>
                    pageLog[p].target # workflow.steps[dispatched[d].idx]

\* C21: a login step that starts on a login page attempts no trigger click;
\* otherwise the login-trigger texts are tried in order, a text that fails is
\* passed over, and the loop stops at the first text that is found and
\* clicked; either way wait_for_login is then called exactly once, and the
\* step resolves nothing through click_element or fill_input
C21_LoginStepTriggersThenWaits ==
    /\ C21_OneWaitPerLoginStep
    /\ C21_TriggersInOrder
    /\ C21_FoundIsClickedAndStops
    /\ C21_NoResolution

\* the calls of wait_for_login that returned False
LoginTimeouts == { p \in LoginWaits : pageLog[p] = LoginWait(FALSE) }

\* the advisory entries of the errors list
LoginErrors == { e \in 1..Len(results.errors) : results.errors[e].kind = "login" }

\* C22: a wait_for_login that times out, in a login step or in the automatic
\* login check before the steps, does not abort the task: every step is still
\* dispatched, and each timeout leaves an advisory entry in the errors list.
C22_LoginTimeoutIsAdvisory ==
    /\ Cardinality(LoginErrors) = Cardinality(LoginTimeouts)
    /\ (pc = "returned" /\ LoginTimeouts # {}
          => Len(dispatched) = Len(workflow.steps))

\* only the timeouts of login steps are recorded
C22_LoginStepTimeoutIsAdvisory ==
    /\ HasLoginStep(workflow.steps) => Cardinality(LoginErrors) = Cardinality(LoginTimeouts)
    /\ (pc = "returned" /\ LoginTimeouts # {}
          => Len(dispatched) = Len(workflow.steps))

---------------------------------------------------------------------------
(* Properties of the fill branch of AgentB.execute_task                      *)

\* the step of the loop that is handled between two states
HandlesStep == InLoop /\ i' = i + 1 /\ Len(dispatched') = Len(dispatched) + 1

LastDispatch == dispatched'[Len(dispatched')]

---------------------------------------------------------------------------
(* End to end: execute_task on a login workflow                              *)

\* Navigator.find_element_by_description (lines 44-56) as one call: the match
\* of the first strategy that returns one, None if none does
RECURSIVE FindFrom(_, _, _)
FindFrom(k, pg, desc) ==
    IF k > Len(strategies) THEN NoMatch
    ELSE LET r == RunStrategy(strategies[k], pg, desc)
         IN  IF IsMatch(r.match) THEN r.match ELSE FindFrom(k + 1, pg, desc)

find_element_by_description(pg, desc) == FindFrom(1, pg, desc)

E_ClickNewProject == <<"C", "l", "i", "c", "k", " ", "N", "e", "w", " ", "P", "r", "o", "j", "e", "c", "t">>
E_FillProjectName == <<"F", "i", "l", "l", " ", "p", "r", "o", "j", "e", "c", "t", " ", "n", "a", "m", "e", " ", "w", "i", "t", "h", " ", "'", "Q", "1", " ", "L", "a", "u", "n", "c", "h", "'">>
E_Q1Launch == <<"Q", "1", " ", "L", "a", "u", "n", "c", "h">>

E2ESteps == << S_LogIn, E_ClickNewProject, E_FillProjectName, S_ClickCreate >>

E2EWorkflow ==
    [ has |-> WorkflowFields, app_name |-> Capitalize(W_linear), action |-> W_create,
      steps |-> E2ESteps, base_url |-> U_linear ]

\* the login form the application starts on, and the dashboards that replace
\* it: at the same URL with an avatar, or at a URL of its own
E2ELoginForm == LoginPage(U_Home, TRUE, TRUE, <<>>, FALSE, FALSE, {})

E2EDashboardPages ==
    { LoginPage(U_Home, FALSE, FALSE, B_Dashboard, FALSE, FALSE, {5}),
      LoginPage(U_Dashboard, FALSE, FALSE, B_Dashboard, FALSE, FALSE, {}) }

\* what the dashboard shows: a "New Project" and a "Create" button and the
\* project-name input; or a control labelled "Create new" (aria-label) and the
\* input; the language model is out of reach, or suggests a selector that works
E2EDashboards ==
    { [ elements |-> es, llm |-> b ] : es \in { {5, 7, 8}, {3, 5} }, b \in { "llm_raises", "hit" } }

\* line 262: wait_for_login(timeout=300000), on the time scale of the model
LoginStepTimeout == 1000 * MaxTimeoutSeconds

\* the elements the strategies see: the dashboard's once it is there
VisiblePage == IF IsLogin(lpage) THEN [ page EXCEPT !.elements = {} ] ELSE page

\* click_element / fill_input on the page: not found, or found and acted on
E2EOutcome(desc) ==
    IF IsMatch(find_element_by_description(VisiblePage, desc)) THEN "ok" ELSE "notfound"

InitE2E ==
    /\ pc = "start"
    /\ question = Q_Linear
    /\ base_url = <<>>
    /\ workflow = NoWorkflow
    /\ results = NoResults
    /\ screenshot_count = 0
    /\ i = 2
    /\ dispatched = <<>>
    /\ pageLog = <<>>
    /\ fpc = "idle"
    /\ description = <<>>
    /\ page \in E2EDashboards
    /\ strategy_index = 0
    /\ calls = <<>>
    /\ queries = <<>>
    /\ found = NoMatch
    /\ wpc = "idle"
    /\ timeout = 0
    /\ start_url = <<>>
    /\ now = 0
    /\ elapsed = 0
    /\ last_progress_message = 0
    /\ indicator_index = 0
    /\ lpage = E2ELoginForm
    /\ changes = 0
    /\ allLogin = TRUE
    /\ stableSinceTop = FALSE
    /\ leftLoginAt = -1
    /\ returned = FALSE
    /\ CallIdle

E2EParse == ParseAndPrepareOn({ [ kind |-> "json", value |-> E2EWorkflow ] })

\* lines 201-262 for a step that starts on a login page: capture it, and call
\* wait_for_login
E2ELoginBegin ==
    /\ InLoop
    /\ Intent(CurrentStep) = "login"
    /\ IsLogin(lpage)
    /\ \E ok \in CaptureOutcomes(results, screenshot_count) :
          results' = WithShot(results, screenshot_count, "login_page_step", ok)
    /\ screenshot_count' = screenshot_count + 1
    /\ pc' = "login_wait"
    /\ wpc' = "start"
    /\ timeout' = LoginStepTimeout
    /\ UNCHANGED << question, base_url, workflow, i, dispatched, pageLog >>
    /\ UNCHANGED << start_url, now, elapsed, last_progress_message, indicator_index, lpage,
                    changes, allLogin, stableSinceTop, leftLoginAt, returned >>
    /\ UNCHANGED << findVars, callVars >>

\* the login succeeds while the wait is running, before the timeout: the
\* dashboard replaces the login form
E2EDashboardAppears ==
    /\ pc = "login_wait"
    /\ wpc \notin { "idle", "returned" }
    /\ IsLogin(lpage)
    /\ now < timeout
    /\ lpage' \in E2EDashboardPages
    /\ changes' = changes + 1
    /\ UNCHANGED << wpc, timeout, start_url, now, elapsed, last_progress_message,
                    indicator_index, allLogin, stableSinceTop, leftLoginAt, returned >>
    /\ UNCHANGED << taskVars, findVars, callVars >>

\* lines 264-282: wait_for_login has returned
E2ELoginEnd ==
    /\ pc = "login_wait"
    /\ wpc = "returned"
    /\ pageLog' = Append(pageLog, LoginWait(returned))
    /\ IF returned
       THEN /\ \E ok \in CaptureOutcomes(results, screenshot_count) :
                  results' = WithShot(results, screenshot_count, "after_login_step", ok)
            /\ screenshot_count' = screenshot_count + 1
       ELSE /\ results' = WithError(results, ErrLogin(CurrentStep))
            /\ UNCHANGED screenshot_count
    /\ dispatched' = Append(dispatched, Dispatch(i - 1, "login",
                                                 IF returned THEN "ok" ELSE "timeout"))
    /\ i' = i + 1
    /\ pc' = "loop"
    \* the locals of wait_for_login end with the call
    /\ wpc' = "idle"
    /\ timeout' = 0
    /\ start_url' = <<>>
    /\ now' = 0
    /\ elapsed' = 0
    /\ last_progress_message' = 0
    /\ indicator_index' = 0
    /\ allLogin' = TRUE
    /\ stableSinceTop' = FALSE
    /\ UNCHANGED << question, base_url, workflow, lpage, changes, leftLoginAt, returned >>
    /\ UNCHANGED << findVars, callVars >>

E2EClick == StepClickOn({ E2EOutcome(CurrentStep) })

E2EFill == StepFillOn({ E2EOutcome(CurrentStep) })

NextE2E ==
    \/ InitializeBrowser
    \/ E2EParse
    \/ Navigate
    \/ LoginCheck
    \/ E2ELoginBegin
    \/ WaitStart
    \/ WaitTop
    \/ WaitUrlChanged
    \/ WaitLoginGone
    \/ WaitLoginGoneRecheck
    \/ WaitIndicator
    \/ WaitIndicatorRecheck
    \/ WaitSleep
    \/ E2EDashboardAppears
    \/ E2ELoginEnd
    \/ E2EClick
    \/ E2EFill
    \/ FinalCapture

SpecE2E == InitE2E /\ [][NextE2E]_vars

---------------------------------------------------------------------------
(* End to end: properties                                                    *)

\* the page holds a visible element for one of the queries the strategies
\* make for the description
Resolvable(pg, desc) ==
    LET keywords == _extract_keywords(desc)
        attempts == TextAttempts(pg, keywords) \o AriaAttempts(pg, keywords)
                      \o RoleAttempts(pg, desc, keywords)
                      \o PlaceholderAttempts(pg, keywords) \o SemanticAttempts(pg)
    IN  \E a \in 1..Len(attempts) : attempts[a].ret \in { "ElementHandle", "None" }

\* the run went as the scenario has it: the navigation worked, the dashboard
\* replaced the login form before the timeout, no capture failed
E2EScenario ==
    /\ pc = "returned"
    /\ NavigationSucceeded
    /\ ~IsLogin(lpage)
    /\ screenshot_count = Len(results.screenshots)
    /\ \A e \in 1..Len(results.errors) : results.errors[e].kind # "fatal"

\* the run the scenario is to end in: the four steps in order, the login step
\* released by the dashboard, an empty errors list, a capture for each step
E2EOutcomeAsSpecified ==
    /\ dispatched = << Dispatch(1, "login", "ok"), Dispatch(2, "click", "ok"),
                       Dispatch(3, "fill", "ok"), Dispatch(4, "click", "ok") >>
    /\ SubSeq(pageLog, 2, Len(pageLog))
         = << LoginWait(TRUE), PageOp("click", E_ClickNewProject, <<>>),
              PageOp("fill", E_FillProjectName, E_Q1Launch),
              PageOp("click", S_ClickCreate, <<>>) >>
    /\ results.success
    /\ results.errors = <<>>
    /\ [ k \in 1..Len(results.screenshots) |-> results.screenshots[k].desc ]
         = << "initial_page_load", "login_page_step", "after_login_step", "after",
              "filled", "after", "final_state" >>

\* C24: the workflow "Log in", "Click New Project", "Fill project name with
\* 'Q1 Launch'", "Click Create" on a login form that a dashboard replaces
\* before the login timeout, every target resolvable on the dashboard: the
\* login step waits until the dashboard is there, then the click, the fill
\* with "Q1 Launch" and the click follow in order, success is true, errors is
\* empty and every step has its capture.
C24_EndToEndLogin ==
    /\ ((\E d \in 1..Len(dispatched) : dispatched[d] = Dispatch(1, "login", "ok"))
          => ~IsLogin(lpage))
    /\ (E2EScenario /\ (\A k \in 2..4 : Resolvable(page, E2ESteps[k]))
          => E2EOutcomeAsSpecified)

\* the same, for the runs in which a poll of wait_for_login saw the dashboard
\* and the cascade returned a match for every target
C24_EndToEndWhenResolved ==
    /\ ((\E d \in 1..Len(dispatched) : dispatched[d] = Dispatch(1, "login", "ok"))
          => ~IsLogin(lpage))
    /\ (E2EScenario /\ returned
          /\ (\A k \in 2..4 : IsMatch(find_element_by_description(page, E2ESteps[k])))
          => E2EOutcomeAsSpecified)

C24_ResolvedWitness ==
    /\ E2EScenario
    /\ E2EOutcomeAsSpecified
    /\ page.llm = "llm_raises"

---------------------------------------------------------------------------
(* AgentB.execute_task: a step that fails in the middle                      *)

\* a returned run of three steps in which the click of step 2 raised inside
\* click_element, steps 1 and 3 succeeded and nothing else went wrong
PartialFailure ==
    /\ pc = "returned"
    /\ Len(workflow.steps) = 3
    /\ Len(dispatched) = 3
    /\ Intent(workflow.steps[2]) = "click"
    /\ \E p \in 1..Len(pageLog) : pageLog[p] = PageOp("click_raises", workflow.steps[2], <<>>)
    /\ dispatched[1].outcome = "ok"
    /\ dispatched[3].outcome = "ok"
    /\ \A e \in 1..Len(results.errors) : results.errors[e].kind # "fatal"

\* C25: in a three-step workflow whose second step is a click step whose
\* click raises, while steps 1 and 3 succeed, success is false, the errors
\* list holds exactly one entry, the one of step 2, and what step 3 does to
\* the page is done, after the failed click.
C25_PartialFailure ==
    PartialFailure =>
        /\ results.success = FALSE
        /\ results.errors = << ErrFailed(workflow.steps[2]) >>
        /\ (Intent(workflow.steps[3]) \in { "click", "fill", "generic" } =>
              \E p, q \in 1..Len(pageLog) :
                  /\ p < q
                  /\ pageLog[p] = PageOp("click_raises", workflow.steps[2], <<>>)
                  /\ pageLog[q].op \in { "click", "fill" }
                  /\ pageLog[q].target = workflow.steps[3])

\* "Click Create" raises between a fill step and a generic step that both
\* reach the page
C25_Witness ==
    /\ PartialFailure
    /\ workflow.steps = << S_FillName, S_ClickCreate, S_Submit >>
    /\ Len(results.screenshots) >= 3

---------------------------------------------------------------------------
(* Navigator.wait_for_modal_or_form: properties                              *)

\* C26: wait_for_modal_or_form returns true if one of its modal, dialog or
\* overlay selectors became visible within the wait, and false otherwise.
C26_TrueIffModalAppeared ==
    cpc = "returned" /\ callee = "wait_for_modal_or_form"
      => (result <=> arg.visible # {})

---------------------------------------------------------------------------
(* The match record of Navigator.find_element_by_description                 *)

\* the tag of a match record, under either name of the field
MatchTag(m) == IF "matched_by" \in DOMAIN m THEN m.matched_by ELSE m.method

\* the tag of a returned match is the one of the strategy that was invoked last
C27_TagNamesStrategy ==
    fpc = "returned" /\ IsMatch(found) => MatchTag(found) = CascadeMethod[Len(calls)]

\* C27: every match find_element_by_description returns carries the selector
\* or the element handle, the original description, and a tag that is one of
\* text, aria_label, role, placeholder, semantic and names the strategy that
\* produced the match.
C27_MatchRecord ==
    fpc = "returned" /\ IsMatch(found) =>
        /\ { "selector", "element" } \cap DOMAIN found # {}
        /\ MatchTag(found) = CascadeMethod[Len(calls)]
        /\ MatchTag(found) \in { "text", "aria_label", "role", "placeholder", "semantic" }
        /\ "original_description" \in DOMAIN found
        /\ found.original_description = description

---------------------------------------------------------------------------
(* AgentB.execute_task: the workflow                                         *)

\* C28: execute_task leaves the parsed workflow's app_name, action and steps
\* as parse_task returned them; base_url becomes the caller's override when
\* one is given and stays as parsed when none is; the workflow in the result
\* is that workflow; and nothing changes it afterwards.
C28_WorkflowFrame ==
    [][ /\ (pc = "parse" /\ pc' = "navigate" =>
              \E llm \in LLMOutcomes :
                  LET wf == parse_task(question, llm)
                  IN  /\ workflow'.app_name = wf.app_name
                      /\ workflow'.action = wf.action
                      /\ workflow'.steps = wf.steps
                      /\ workflow'.base_url = IF base_url # <<>> THEN base_url
                                              ELSE wf.base_url
                      /\ results'.workflow = workflow')
        /\ (pc \notin { "start", "parse" } =>
              workflow' = workflow /\ results'.workflow = workflow) ]_vars

\* a returned run with an override: the workflow of the result has the
\* caller's URL and the steps that were dispatched
C28_Witness ==
    /\ pc = "returned"
    /\ base_url = U_staging
    /\ results.workflow.base_url = U_staging
    /\ Len(results.workflow.steps) = 2
    /\ Len(dispatched) = 2
    /\ results.errors # <<>>

---------------------------------------------------------------------------
(* AgentB.execute_task: the result's sequences                               *)

IsPrefix(a, b) == Len(a) <= Len(b) /\ SubSeq(b, 1, Len(a)) = a

\* C29: during a run the screenshots and the errors of the result only grow:
\* every step of execute_task leaves the entries that are there in place and
\* adds at the end, also when a step raises and on the fatal path.
C29_SequencesOnlyGrow ==
    [][ /\ IsPrefix(results.screenshots, results'.screenshots)
        /\ IsPrefix(results.errors, results'.errors) ]_vars

\* a returned run in which a step raised and the final capture raised too,
\* after screenshots had been taken
C29_Witness ==
    /\ pc = "returned"
    /\ Len(results.errors) >= 2
    /\ results.errors[1].kind = "step_exception"
    /\ results.errors[Len(results.errors)].kind = "fatal"
    /\ Len(results.screenshots) >= 2

---------------------------------------------------------------------------
(* Navigator._find_by_text_content: the order of the attempts                *)

IsTextQuery(a) == a.q \in { "text_exact", "text_partial" }

\* the attempts the text-content strategy made in the call
TextQueries == SelectSeq(queries, IsTextQuery)

\* the terms are walked in the extractor's order, the exact attempt of a term
\* before its substring attempt
C30_ExactThenPartialPerTerm ==
    LET keywords == _extract_keywords(description)
    IN  /\ Len(TextQueries) <= 2 * Len(keywords)
        /\ \A k \in 1..Len(TextQueries) :
              /\ TextQueries[k].term = keywords[(k + 1) \div 2]
              /\ TextQueries[k].q = IF k % 2 = 1 THEN "text_exact" ELSE "text_partial"

\* every single-word term is tried before any two-word phrase
C30_WordsBeforePhrases ==
    \A j, k \in 1..Len(TextQueries) :
        j < k /\ HasSpace(TextQueries[j].term) => HasSpace(TextQueries[k].term)

\* no attempt follows an attempt that made the strategy return a match
C30_StopsAtFirstReturn ==
    \A k \in 1..(Len(TextQueries) - 1) : ~Truthy(TextQueries[k].ret)

\* C30: the text-content strategy walks the terms in extractor order, for each
\* term the exact attempt before the substring attempt, and returns at the
\* first attempt that succeeds: no attempt follows one whose element was
\* found, both attempts of a term precede those of the next, and every
\* single word is tried before any two-word phrase.
C30_TextStrategyOrder ==
    /\ C30_ExactThenPartialPerTerm
    /\ C30_WordsBeforePhrases
    /\ \A k \in 1..(Len(TextQueries) - 1) :
          TextQueries[k].ret \notin { "ElementHandle", "None" }
    /\ (fpc = "returned" /\ TextQueries # <<>>
          /\ TextQueries[Len(TextQueries)].ret \in { "ElementHandle", "None" }
          => found.method = "text_content")

---------------------------------------------------------------------------
(* Navigator._find_by_role: which roles are asked for                        *)

\* the role types of role_map whose word occurs in the description
RoleWordsIn(desc) ==
    { k \in 1..Len(role_map) : Contains(Lower(desc), role_map[k].word) }

IsRoleQuery(a) == a.q = "role"

\* the page queries the role strategy made in the call
RoleQueries == SelectSeq(queries, IsRoleQuery)

\* C31: the role strategy asks the page only for roles mapped from a
\* role-indicative word (button, input, field, menu, modal, form) that occurs
\* in the description; when the description holds none of these words the
\* strategy makes no page query and returns no match.
C31_RoleQueriesFromRoleWords ==
    /\ \A n \in 1..Len(RoleQueries) :
          \E k \in RoleWordsIn(description) :
              \E r \in 1..Len(role_map[k].roles) : role_map[k].roles[r] = RoleQueries[n].role
    /\ (RoleWordsIn(description) = {} => RoleQueries = <<>> /\ found.method # "role")

\* a call for "the name field" that got as far as the role strategy on a page
\* with a textbox named "Name": it asked for textbox and combobox
C31_Witness ==
    /\ description = D_NameField
    /\ 6 \in page.elements
    /\ Len(calls) >= 3
    /\ \E n \in 1..Len(RoleQueries) : RoleQueries[n].role = R_textbox
    /\ \E n \in 1..Len(RoleQueries) : RoleQueries[n].role = R_combobox
    /\ \A n \in 1..Len(RoleQueries) : RoleQueries[n].role \in { R_textbox, R_combobox }

\* a call for "Click Create", which names no role, after the role strategy
C31_NoRoleWordReached ==
    /\ description = S_ClickCreate
    /\ Len(calls) >= 3
    /\ RoleQueries = <<>>
---------------------------------------------------------------------------
(* AgentB._extract_value_from_step: properties                               *)

ValueColon == <<"v", "a", "l", "u", "e", ":">>

\* the positions of the step where a "value:" token starts, in any letter case
ValueColonAt(step) ==
    { p \in 1..(Len(step) - 5) : Lower(SubSeq(step, p, p + 5)) = ValueColon }

\* pairs << a, b >> of quote positions enclosing a non-empty text without quotes
QuotedPairs(step) ==
    { ab \in (1..Len(step)) \X (1..Len(step)) :
        /\ ab[1] + 1 < ab[2]
        /\ IsQuoteChar(step[ab[1]]) /\ IsQuoteChar(step[ab[2]])
        /\ \A k \in (ab[1] + 1)..(ab[2] - 1) : ~IsQuoteChar(step[k]) }

\* v is the content of the first quoted substring of the step
IsFirstQuoted(step, v) ==
    \E ab \in QuotedPairs(step) :
        /\ \A cd \in QuotedPairs(step) : ab[1] <= cd[1]
        /\ v = SubSeq(step, ab[1] + 1, ab[2] - 1)

\* v is a single word that follows a "value:" token of the step
IsWordAfterValueColon(step, v) ==
    \E p \in ValueColonAt(step) : \E a \in (p + 6)..Len(step) :
        /\ \A k \in (p + 6)..(a - 1) : IsSpaceChar(step[k]) \/ step[k] = ":"
        /\ v # <<>>
        /\ a + Len(v) - 1 <= Len(step)
        /\ v = SubSeq(step, a, a + Len(v) - 1)
        /\ \A k \in 1..Len(v) : IsWordChar(v[k])
        /\ a + Len(v) <= Len(step) => ~IsWordChar(step[a + Len(v)])

\* a returned call of _extract_value_from_step
ValueReturned == cpc = "returned" /\ callee = "_extract_value_from_step"

\* a quoted substring wins, also over a "value:" token of the same step
C32_QuotedFirst ==
    ValueReturned /\ QuotedPairs(arg) # {}
      => result.found /\ IsFirstQuoted(arg, result.value)

\* a value that is not quoted is one word
C32_UnquotedIsOneWord ==
    ValueReturned /\ QuotedPairs(arg) = {} /\ result.found
      => \A k \in 1..Len(result.value) : IsWordChar(result.value[k])

\* without a quoted substring, a "value:" token gives the word after it
C32_ValueColonWord ==
    ValueReturned /\ QuotedPairs(arg) = {} /\ ValueColonAt(arg) # {}
      => result.found /\ IsWordAfterValueColon(arg, result.value)

\* without a quoted substring and without a "value:" token, None is returned
C32_ElseNone ==
    ValueReturned /\ QuotedPairs(arg) = {} /\ ValueColonAt(arg) = {}
      => result = NoValue

\* C32: _extract_value_from_step returns the content of the first quoted
\* substring of the step if there is one, otherwise the single word after a
\* "value:" token (in any letter case) if there is one, otherwise None; the
\* quoted substring takes precedence and an unquoted value of several words is
\* never returned in full.
C32_ExtractValue ==
    /\ C32_QuotedFirst
    /\ C32_UnquotedIsOneWord
    /\ C32_ValueColonWord
    /\ C32_ElseNone

\* "Enter a value for the title" has no quote and no "value:" token, and the
\* word "for" is returned
C32_ValueWithoutColon ==
    /\ ValueReturned
    /\ arg = V_ValueFor
    /\ result = [found |-> TRUE, value |-> <<"f", "o", "r">>]
---------------------------------------------------------------------------
(* Navigator.wait_for_login: the progress messages                           *)

\* the longest poll: the settle delay of the second signal, one second for
\* each indicator that is present, and the sleep before the next poll
MaxPollSeconds == 2 + Len(authenticated_indicators) + 2

\* the end of a poll: the step from the indicators to the top of the loop
EndOfPoll == wpc = "indicators" /\ wpc' = "top"

\* a progress message is printed in this step
ProgressMessage == last_progress_message' # last_progress_message

\* messages are printed at the end of a poll only, never before 30 seconds and
\* never less than 30 elapsed seconds after the previous one
C33_MessagesThirtyApart ==
    [][ ProgressMessage =>
          /\ EndOfPoll
          /\ last_progress_message' = elapsed \div 1000
          /\ last_progress_message' >= 30
          /\ last_progress_message' - last_progress_message >= 30 ]_vars

\* a poll that ends 30 whole seconds or more after the previous message (or
\* after the start of the wait) prints one
C33_MessageWhenDue ==
    [][ EndOfPoll /\ (elapsed \div 1000) - last_progress_message >= 30
          => ProgressMessage ]_vars

\* a message that is due is printed at the end of the poll that is running:
\* the time since the last one never reaches 30 seconds plus one poll
C33_NoSilentStretch ==
    (elapsed \div 1000) - last_progress_message < 30 + MaxPollSeconds

\* C33: during wait_for_login a progress message is printed at the end of a
\* poll whenever at least 30 whole seconds have elapsed since the previous
\* message (or since the start of the wait); while the wait goes on no
\* 30-second stretch passes without a message being due at the next poll, no
\* message is printed before 30 seconds, and two messages are never less than
\* 30 elapsed seconds apart.
C33_ProgressEveryThirtySeconds ==
    [][ /\ ProgressMessage =>
              /\ EndOfPoll
              /\ last_progress_message' = elapsed \div 1000
              /\ last_progress_message' >= 30
              /\ last_progress_message' - last_progress_message >= 30
        /\ EndOfPoll /\ (elapsed \div 1000) - last_progress_message >= 30
              => ProgressMessage
        /\ C33_NoSilentStretch ]_vars

\* the second message of a wait whose polls take four seconds each: the first
\* was printed at 32 seconds, the second at 64
C33_SecondMessage ==
    /\ wpc = "top"
    /\ last_progress_message = 64
    /\ now = 68000
---------------------------------------------------------------------------
(* Navigator.is_login_page: a page that cannot be queried                    *)

\* the page with the same URL that holds nothing a login page holds
BlankPage(pg) == LoginPage(pg.url, FALSE, FALSE, <<>>, FALSE, FALSE, {})

\* C34: is_login_page never raises: it returns a boolean on every page, and
\* when the page queries fail it returns False unless the URL pattern check
\* had already returned True; so the classification of a page that cannot be
\* queried is the one of a page with the same URL that is not a login page.
C34_FailureIsNotLogin ==
    Returned("is_login_page")
      => /\ result \in BOOLEAN
         /\ arg.fails => /\ result = ContainsAny(Lower(arg.url), login_url_patterns)
                         /\ result = is_login_page(BlankPage(arg))

\* a page with an email and a password input and a sign-in form whose queries
\* fail, classified False
C34_Witness ==
    /\ Returned("is_login_page")
    /\ arg.fails
    /\ arg.url = U_Home
    /\ arg.email /\ arg.password
    /\ arg.body = B_PleaseSignIn /\ arg.form
    /\ result = FALSE

\* in wait_for_login a page that cannot be queried passes the "login page is
\* gone" test as a page that is not a login page does
C34_WaitTakesFailureForNotLogin ==
    [][ ( /\ wpc = "login_gone"
          /\ wpc' # wpc
          /\ lpage.fails
          /\ ~ContainsAny(Lower(lpage.url), login_url_patterns) )
          => wpc' = "login_gone_recheck" ]_vars
---------------------------------------------------------------------------
(* Navigator.wait_for_login: the login page is gone                          *)

\* the step in which wait_for_login returns True
ReturnsTrue == wpc # "returned" /\ wpc' = "returned" /\ returned'

\* the step is one of wait_for_login itself, not a change of the page
WaitMoves == wpc' # wpc \/ indicator_index' # indicator_index

\* an authenticated-user indicator can be found on the page
IndicatorPresent(pg) == ~pg.fails /\ pg.indicators # {}

\* the second look is reached only from a first look that returned False,
\* after the settle delay of two seconds
C35_SecondLookAfterFirst ==
    [][ wpc' = "login_gone_recheck" /\ wpc # "login_gone_recheck"
          => wpc = "login_gone" /\ ~IsLogin(lpage) /\ now' = now + 2000 ]_vars

\* True is returned for one of the three signals, and for the absence of the
\* login page alone only at the second look, which returned False as well
C35_TrueOnlyBySignal ==
    [][ ReturnsTrue =>
          \/ wpc = "url_changed" /\ lpage.url # start_url /\ ~IsLogin(lpage)
          \/ wpc = "login_gone_recheck" /\ ~IsLogin(lpage)
          \/ wpc = "indicator_recheck" /\ ~IsLogin(lpage) ]_vars

\* the look after an indicator is reached only from an indicator that was found
C35_IndicatorWasThere ==
    [][ wpc' = "indicator_recheck" /\ wpc # "indicator_recheck"
          => wpc = "indicators" /\ IndicatorPresent(lpage) ]_vars

\* a second look that finds the login page does not end the wait: the poll
\* goes on to the indicators, and without an indicator to its end
C35_TransientGoesOn ==
    [][ /\ (wpc = "login_gone_recheck" /\ WaitMoves /\ IsLogin(lpage))
          => wpc' = "indicators" /\ indicator_index' = 1 /\ returned' = returned
        /\ (wpc = "indicators" /\ WaitMoves /\ ~IndicatorPresent(lpage))
          => wpc' \in { "indicators", "top" } /\ returned' = returned ]_vars

\* C35: wait_for_login returns True for the mere absence of the login page
\* only after two consecutive is_login_page evaluations, two seconds apart,
\* both returned False; a first look that returned False followed by a second
\* look that returned True does not end the wait as long as the URL is the
\* start URL and no authenticated-user indicator is present.
C35_TwoLooksBeforeTrue ==
    [][ /\ (wpc' = "login_gone_recheck" /\ wpc # "login_gone_recheck")
          => wpc = "login_gone" /\ ~IsLogin(lpage) /\ now' = now + 2000
        /\ ReturnsTrue =>
              \/ wpc = "url_changed" /\ lpage.url # start_url /\ ~IsLogin(lpage)
              \/ wpc = "login_gone_recheck" /\ ~IsLogin(lpage)
              \/ wpc = "indicator_recheck" /\ ~IsLogin(lpage)
        /\ (wpc = "login_gone_recheck" /\ WaitMoves /\ IsLogin(lpage))
          => wpc' = "indicators" /\ indicator_index' = 1 /\ returned' = returned
        /\ (wpc = "indicators" /\ WaitMoves /\ ~IndicatorPresent(lpage))
          => wpc' \in { "indicators", "top" } /\ returned' = returned ]_vars

\* a transient: the first look of this poll found the login page gone, the
\* page turned into a login page during the settle delay, and the poll has
\* gone on to its end without an indicator and without a change of the URL
C35_Transient ==
    /\ wpc = "top"
    /\ now - elapsed = 2000 + check_interval
    /\ IsLogin(lpage)
    /\ ~IndicatorPresent(lpage)
    /\ lpage.url = start_url
    /\ changes = 1
    /\ ~allLogin
    /\ ~returned
---------------------------------------------------------------------------
(* Navigator.wait_for_login: where the timeout is looked at                  *)

\* the step in which wait_for_login returns False
ReturnsFalse == wpc # "returned" /\ wpc' = "returned" /\ ~returned'

\* False is returned at the top of an iteration that starts at or after the
\* timeout, and nowhere else
C36_FalseOnlyAtTop ==
    [][ ReturnsFalse => wpc = "top" /\ now >= timeout ]_vars

\* an iteration that starts at or after the timeout returns False; one that
\* starts before it goes on to its signal checks
C36_TopDecides ==
    [][ wpc = "top" /\ wpc' # wpc
          => IF now >= timeout THEN ReturnsFalse
             ELSE wpc' = "url_changed" /\ returned' = returned ]_vars

\* with a timeout of zero or less no signal is evaluated and no delay taken
C36_NoSignalWithoutTime ==
    [][ timeout <= 0 => wpc' \in { "start", "top", "returned" } /\ now' = 0 /\ ~returned' ]_vars

\* C36: wait_for_login compares the elapsed time with the timeout only at the
\* start of a polling iteration: it returns False exactly when an iteration
\* starts with elapsed >= timeout; with a timeout of zero or less it returns
\* False without evaluating a completion signal, even on a page that is not a
\* login page; an iteration that started before the timeout runs its signal
\* checks and settle delays to the end, whatever the clock says meanwhile.
C36_TimeoutOnlyAtTop ==
    [][ /\ ReturnsFalse => wpc = "top" /\ now >= timeout
        /\ (wpc = "top" /\ wpc' # wpc)
              => IF now >= timeout THEN ReturnsFalse
                 ELSE wpc' = "url_changed" /\ returned' = returned
        /\ timeout <= 0 => wpc' \in { "start", "top", "returned" } /\ now' = 0 /\ ~returned'
        /\ (wpc \notin { "start", "top", "returned" } /\ wpc' = "top")
              => wpc = "indicators" /\ indicator_index > Len(authenticated_indicators) ]_vars

\* a wait with a timeout of zero on a page that is not a login page has
\* returned False at once
C36_ZeroTimeout ==
    /\ wpc = "returned"
    /\ ~returned
    /\ timeout = 0
    /\ now = 0
    /\ changes = 0
    /\ ~IsLogin(lpage)

\* an iteration that started before the timeout is at its second look after
\* the timeout has passed, and returns True from there
C36_RunsPastTimeout ==
    /\ wpc = "login_gone_recheck"
    /\ elapsed < timeout
    /\ now > timeout
    /\ ~IsLogin(lpage)
---------------------------------------------------------------------------
(* AgentB.execute_task: how many errors                                      *)

\* the entries of the errors list that a step appended, and the fatal ones
StepErrors == { k \in 1..Len(results.errors) : results.errors[k].kind # "fatal" }

FatalErrors == { k \in 1..Len(results.errors) : results.errors[k].kind = "fatal" }

\* the dispatched steps that ended in an error entry: a login step whose wait
\* timed out, a click step that failed, a step that raised
ErrorDispatches ==
    { k \in 1..Len(dispatched) :
        \/ dispatched[k].outcome \in { "raised", "timeout" }
        \/ dispatched[k].intent = "click" /\ dispatched[k].outcome = "failed" }

\* C37: each dispatched step appends at most one entry to the errors list, so
\* when execute_task returns the list has at most as many entries as the
\* workflow has steps, plus one for a fatal error.
C37_ErrorsBounded ==
    /\ Cardinality(StepErrors) = Cardinality(ErrorDispatches)
    /\ Cardinality(FatalErrors) <= 1
    /\ Len(dispatched) <= Len(workflow.steps)
    /\ Len(results.errors) <= Len(dispatched) + 1
    /\ pc = "returned" => Len(results.errors) <= Len(workflow.steps) + 1

\* every step of a workflow of two steps or more left an error entry, and the
\* final capture raised
C37_Witness ==
    /\ pc = "returned"
    /\ Len(workflow.steps) >= 2
    /\ Cardinality(StepErrors) = Len(workflow.steps)
    /\ Cardinality(FatalErrors) = 1
---------------------------------------------------------------------------
(* AgentB.execute_task: the automatic login check and the login steps        *)

\* a step of the workflow is of login intent
AnyLoginIntent ==
    \E k \in 1..Len(workflow.steps) : Intent(workflow.steps[k]) = "login"

\* the step loop is about to start
BeforeLoop == pc = "loop" /\ dispatched = <<>>

\* C38: the automatic login check after the first navigation is made exactly
\* if no step of the workflow is of login intent, the check and the step
\* classification using the same words; so in one task wait_for_login is
\* called at most once before the step loop, once for each login step, and
\* never both before the loop and inside it.
C38_CheckOrLoginSteps ==
    /\ LoginCheckWords = LoginWords
    /\ pc \in { "start", "parse", "navigate", "login_check" } => LoginWaits = {}
    /\ IF AnyLoginIntent
       THEN Cardinality(LoginWaits) = Cardinality(LoginDispatches)
       ELSE /\ LoginDispatches = {}
            /\ Cardinality(LoginWaits) <= 1
    /\ BeforeLoop /\ LoginWaits # {} => ~AnyLoginIntent /\ pageLog[Len(pageLog)].op = "wait_for_login"

\* the step from the check to the loop calls wait_for_login only in a
\* workflow without a login step, and leaves the page alone otherwise
C38_CheckStep ==
    [][ pc = "login_check" /\ pc' = "loop"
          => IF AnyLoginIntent
             THEN pageLog' = pageLog /\ results' = results
             ELSE \/ pageLog' = pageLog /\ results' = results
                  \/ \E login_completed \in BOOLEAN :
                        pageLog' = Append(pageLog, LoginWait(login_completed)) ]_vars

\* a task without a login step that met a login page: one wait before the
\* loop, none inside it, all steps dispatched
C38_Witness ==
    /\ pc = "returned"
    /\ ~AnyLoginIntent
    /\ Len(dispatched) = Len(workflow.steps)
    /\ Len(dispatched) >= 2
    /\ Cardinality(LoginWaits) = 1

\* a task with two login steps: no wait before the loop, one in each step
C38_TwoLoginSteps ==
    /\ pc = "returned"
    /\ Cardinality(LoginDispatches) = 2
    /\ Cardinality(LoginWaits) = 2
===========================================================================
